---- MODULE Spec2Model ----
(***************************************************************************)
(* Moborr.io backend: the authoritative game servers of the repository.    *)
(*                                                                         *)
(*   server.js (lines 1-237)   socket.io server, input applied on receipt  *)
(*   unnamed/part_001          socket.io server with rectangular walls,    *)
(*                             a spatial grid and stale-player cleanup     *)
(*   unnamed/part_000          WebSocket server: staged input, tick loop,  *)
(*                             mobs, chat                                  *)
(*                                                                         *)
(* JavaScript numbers are modelled as integers in fixed-point units plus   *)
(* the three IEEE-754 specials NaN, +Infinity and -Infinity, with the      *)
(* arithmetic and the comparisons the language defines for them.           *)
(***************************************************************************)
EXTENDS Integers, Sequences, FiniteSets, TLC

VARIABLES
    players,    \* Map id -> player record (each server's `players`)
    conn,       \* per connection: "new", "open" or "closed"
    now,        \* Date.now(), in ms
    emitted,    \* the events the most recent handler sent
    op,         \* the most recent handler: <<name, connection, Number(msg.seq), outcome>>
                \* (the WebSocket server records the name and the outcome only)
    lastApplied, \* per connection: the seq of the input applied last (0: none yet)
    session,    \* WebSocket server: the `player` of each connection's closure
    nextPlayerId,
    mobs,       \* Map id -> mob record
    ticks,      \* number of simulation ticks run
    chatLog,    \* per player in the world: the times of the chat events broadcast for it
    leftCount,  \* per player id: the number of playerLeft events broadcast for it
    spatial,    \* the SpatialGrid instance: the walls it was built from and its grid
    nearby,     \* the most recent getNearbyWalls call: its arguments and its result
    entity,     \* the entity handed to resolveCircleRect and constrainEntity
    rect,       \* the rectangle handed to resolveCircleRect
    startup,    \* WebSocket server: the centerline given to the startup build and its `walls`
    snapshotPos, \* socket.io server: per player, its position in the latest stateSnapshot
                 \* sent since it joined, and whether every input applied since then
                 \* moved it by at most SPEED * MAX_INPUT_DT on each axis
    announced   \* socket.io server with walls: per socket id, the last of the events
                \* newPlayer and playerLeft emitted for it, "" before the first

wsVars == <<session, nextPlayerId, mobs, ticks, chatLog, leftCount>>

\* the state of the collision functions that are checked on their own
fnVars == <<spatial, nearby, entity, rect, startup>>

vars == <<players, conn, now, emitted, op, lastApplied, session, nextPlayerId, mobs, ticks,
          chatLog, leftCount, spatial, nearby, entity, rect, startup, snapshotPos,
          announced>>

\* the collision functions have not been called
FnIdle ==
    /\ spatial = [walls |-> <<>>, grid |-> <<>>]
    /\ nearby = [x |-> 0, y |-> 0, radius |-> 0, walls |-> {}]
    /\ entity = [x |-> 0, y |-> 0, vx |-> 0, vy |-> 0, radius |-> 0]
    /\ rect = [x |-> 0, y |-> 0, w |-> 0, h |-> 0]
    /\ startup = [centerline |-> <<>>, walls |-> <<>>]

(***************************************************************************)
(* Bounds of the model.                                                    *)
(***************************************************************************)
MaxSeq == 2
MaxPlayers == 2
MaxTicks == 2
MaxChatTime == 1500
ChatStep == 500
MaxLevel == 6
MaxMobTime == 24000
RespawnStep == 6000

Sockets == {"s1", "s2"}

(***************************************************************************)
(* JavaScript numbers.                                                     *)
(***************************************************************************)
PInf == 1000000000
NInf == -1000000000
NaN == 2000000000

IsFinite(a) == a # NaN /\ a # PInf /\ a # NInf

jsNeg(a) == IF a = NaN THEN NaN ELSE IF a = PInf THEN NInf ELSE IF a = NInf THEN PInf ELSE 0 - a

jsAdd(a, b) ==
    IF a = NaN \/ b = NaN THEN NaN
    ELSE IF a = PInf THEN (IF b = NInf THEN NaN ELSE PInf)
    ELSE IF a = NInf THEN (IF b = PInf THEN NaN ELSE NInf)
    ELSE IF b = PInf \/ b = NInf THEN b
    ELSE a + b

jsSign(a) == IF a > 0 THEN 1 ELSE IF a < 0 THEN -1 ELSE 0

jsMul(a, b) ==
    IF a = NaN \/ b = NaN THEN NaN
    ELSE IF IsFinite(a) /\ IsFinite(b) THEN a * b
    ELSE IF a = 0 \/ b = 0 THEN NaN
    ELSE IF jsSign(a) * jsSign(b) > 0 THEN PInf ELSE NInf

\* a / b for b > 0 (a length); the inputs of the model make it exact.
jsDiv(a, b) ==
    IF a = NaN \/ b = NaN THEN NaN
    ELSE IF IsFinite(a) /\ IsFinite(b) THEN a \div b
    ELSE IF IsFinite(a) THEN 0
    ELSE IF IsFinite(b) THEN a
    ELSE NaN

jsLt(a, b) == a # NaN /\ b # NaN /\ a < b
jsLe(a, b) == a # NaN /\ b # NaN /\ a <= b
jsGt(a, b) == a # NaN /\ b # NaN /\ a > b
jsGe(a, b) == a # NaN /\ b # NaN /\ a >= b

\* Math.min / Math.max: NaN if either argument is NaN.
jsMin(a, b) == IF a = NaN \/ b = NaN THEN NaN ELSE IF a < b THEN a ELSE b
jsMax(a, b) == IF a = NaN \/ b = NaN THEN NaN ELSE IF a > b THEN a ELSE b

jsAbs(a) == IF a = NaN THEN NaN ELSE IF a = NInf THEN PInf ELSE IF a < 0 THEN 0 - a ELSE a

\* floor of the square root, by bisection on lo..hi
RECURSIVE SqrtIn(_, _, _)
SqrtIn(n, lo, hi) ==
    IF lo >= hi THEN lo
    ELSE LET mid == (lo + hi + 1) \div 2
         IN IF mid * mid <= n THEN SqrtIn(n, mid, hi) ELSE SqrtIn(n, lo, mid - 1)

ISqrt(n) == SqrtIn(n, 0, IF n < 46340 THEN n ELSE 46340)

\* Math.hypot: Infinity if either argument is infinite, else NaN if either is NaN.
jsHypot(a, b) ==
    IF a = PInf \/ a = NInf \/ b = PInf \/ b = NInf THEN PInf
    ELSE IF a = NaN \/ b = NaN THEN NaN
    ELSE ISqrt(a * a + b * b)

\* `Number(v) || d`: v is the value Number() returned; NaN and 0 are falsy.
NumberOr(v, d) == IF v = NaN \/ v = 0 THEN d ELSE v

(***************************************************************************)
(* server.js, lines 1-237: the socket.io server.                           *)
(* Units: positions in 1/PX px, dt in 1/DT_UNITS s, velocities in px/s,    *)
(* normalised input components in 1/UNIT.                                  *)
(***************************************************************************)
PX == 15
DT_UNITS == 30
UNIT == 5

TICK_RATE == 30
MAX_INPUT_DT == DT_UNITS \div 10
SPEED == 260
MAP_W == 12000
MAP_H == 12000
MAP_PADDING == 16

\* vx * dt (px/s times dt units) as a displacement in position units
Displacement(v, dt) ==
    LET m == jsMul(v, dt) IN IF IsFinite(m) THEN (m * PX) \div DT_UNITS ELSE m

clamp(val, a, b) == jsMax(a, jsMin(b, val))

\* the values Math.random() is taken to produce in randomSpawn, as pixels
SpawnXs == {MAP_PADDING, 6000}
SpawnYs == {6000}

randomSpawn == {[x |-> sx * PX, y |-> sy * PX] : sx \in SpawnXs, sy \in SpawnYs}

\* the values Number(msg.seq), Number(msg.dt), Number(input.x) can be
SeqValues == {NaN} \cup (1..MaxSeq)
DtValues == {NaN, 0, 300, -600}
InputVectors == {<<0, 0>>, <<3, -4>>, <<PInf, 0>>}

Remove(f, k) == [t \in (DOMAIN f) \ {k} |-> f[t]]
Put(f, k, v) == [t \in (DOMAIN f) \cup {k} |-> IF t = k THEN v ELSE f[t]]

connection(s) ==
    /\ conn[s] = "new"
    /\ conn' = [conn EXCEPT ![s] = "open"]
    /\ op' = <<"connection", s, 0, "">>
    /\ emitted' = <<>>
    /\ UNCHANGED <<players, now, lastApplied>>
    /\ UNCHANGED wsVars
    /\ UNCHANGED fnVars
    /\ UNCHANGED snapshotPos
    /\ UNCHANGED announced

join(s) ==
    /\ conn[s] = "open"
    /\ \E spawn \in randomSpawn :
         LET p == [id |-> s, x |-> spawn.x, y |-> spawn.y, vx |-> 0, vy |-> 0,
                   lastProcessedInput |-> 0, lastHeard |-> now]
         IN /\ players' = Put(players, s, p)
            /\ emitted' = <<[ev |-> "currentPlayers", to |-> {s}],
                            [ev |-> "newPlayer", id |-> s, to |-> Sockets \ {s}]>>
    /\ op' = <<"join", s, 0, "">>
    /\ UNCHANGED <<conn, now, lastApplied>>
    /\ UNCHANGED wsVars
    /\ UNCHANGED fnVars
    /\ UNCHANGED announced
    /\ snapshotPos' = Remove(snapshotPos, s)

\* the player record after an input that passed the sequence check
ApplyInput(player, seq, dt, mix, miy) ==
    LET ix0 == jsMul(NumberOr(mix, 0), UNIT)
        iy0 == jsMul(NumberOr(miy, 0), UNIT)
        len == jsHypot(NumberOr(mix, 0), NumberOr(miy, 0))
        big == jsGt(len, 0)
        ix == IF big THEN jsDiv(ix0, len) ELSE ix0
        iy == IF big THEN jsDiv(iy0, len) ELSE iy0
        vx == jsDiv(jsMul(ix, SPEED), UNIT)
        vy == jsDiv(jsMul(iy, SPEED), UNIT)
        x1 == jsAdd(player.x, Displacement(vx, dt))
        y1 == jsAdd(player.y, Displacement(vy, dt))
    IN [player EXCEPT !.lastProcessedInput = seq,
                      !.vx = vx, !.vy = vy,
                      !.x = clamp(x1, MAP_PADDING * PX, (MAP_W - MAP_PADDING) * PX),
                      !.y = clamp(y1, MAP_PADDING * PX, (MAP_H - MAP_PADDING) * PX)]

\* the player q is the player p moved by at most SPEED * MAX_INPUT_DT on each axis
StepBounded(p, q) ==
    /\ IsFinite(p.x) /\ IsFinite(p.y) /\ IsFinite(q.x) /\ IsFinite(q.y)
    /\ jsAbs(q.x - p.x) <= (SPEED * MAX_INPUT_DT * PX) \div DT_UNITS
    /\ jsAbs(q.y - p.y) <= (SPEED * MAX_INPUT_DT * PX) \div DT_UNITS

input(s, mseq, mdt, mix, miy) ==
    /\ conn[s] = "open"
    /\ emitted' = <<>>
    /\ IF s \notin DOMAIN players
       THEN /\ op' = <<"input", s, mseq, "return">>
            /\ UNCHANGED <<players, lastApplied>>
       ELSE LET player == [players[s] EXCEPT !.lastHeard = now]
                seq == NumberOr(mseq, 0)
                dt == jsMin(NumberOr(mdt, DT_UNITS \div TICK_RATE), MAX_INPUT_DT)
            IN IF jsLe(seq, player.lastProcessedInput)
               THEN /\ players' = [players EXCEPT ![s] = player]
                    /\ op' = <<"input", s, mseq, "discarded">>
                    /\ UNCHANGED lastApplied
               ELSE /\ players' = [players EXCEPT ![s] = ApplyInput(player, seq, dt, mix, miy)]
                    /\ op' = <<"input", s, mseq, "applied">>
                    /\ lastApplied' = [lastApplied EXCEPT ![s] = seq]
    /\ UNCHANGED <<conn, now>>
    /\ UNCHANGED wsVars
    /\ UNCHANGED fnVars
    /\ UNCHANGED announced
    /\ snapshotPos' = IF s \in DOMAIN snapshotPos \cap DOMAIN players
                      THEN [snapshotPos EXCEPT ![s].bounded = @ /\ StepBounded(players[s], players'[s])]
                      ELSE snapshotPos

disconnect(s) ==
    /\ conn[s] = "open"
    /\ conn' = [conn EXCEPT ![s] = "closed"]
    /\ op' = <<"disconnect", s, 0, "">>
    /\ IF s \in DOMAIN players
       THEN /\ players' = Remove(players, s)
            /\ emitted' = <<[ev |-> "playerLeft", id |-> s, to |-> Sockets \ {s}]>>
       ELSE /\ UNCHANGED players
            /\ emitted' = <<>>
    /\ UNCHANGED <<now, lastApplied>>
    /\ UNCHANGED wsVars
    /\ UNCHANGED fnVars
    /\ UNCHANGED announced
    /\ snapshotPos' = Remove(snapshotPos, s)

Snapshot(ps) ==
    [id \in DOMAIN ps |-> [x |-> ps[id].x, y |-> ps[id].y, vx |-> ps[id].vx, vy |-> ps[id].vy,
                           lastProcessedInput |-> ps[id].lastProcessedInput]]

snapshotTick ==
    /\ op' = <<"tick", "", 0, "">>
    /\ emitted' = IF DOMAIN players # {}
                  THEN <<[ev |-> "stateSnapshot", players |-> Snapshot(players), to |-> Sockets]>>
                  ELSE <<>>
    /\ UNCHANGED <<players, conn, now, lastApplied>>
    /\ UNCHANGED wsVars
    /\ UNCHANGED fnVars
    /\ UNCHANGED announced
    /\ snapshotPos' = [id \in DOMAIN players |->
                          [x |-> players[id].x, y |-> players[id].y, bounded |-> TRUE]]

(***************************************************************************)
(* unnamed/part_001: the socket.io server with walls, a spatial grid and   *)
(* stale-player cleanup.  Wall coordinates are pixels; positions are in    *)
(* 1/PX px as above.                                                       *)
(***************************************************************************)
MaxTime == 45000
TimeStep == 15000

wallThickness == 600

Pct(v, p) == (v * p) \div 100

WALLS == <<
    [x |-> 0, y |-> 0, width |-> wallThickness, height |-> Pct(MAP_H, 40)],
    [x |-> 0, y |-> 0, width |-> Pct(MAP_W, 35), height |-> wallThickness],
    [x |-> Pct(MAP_W, 30), y |-> wallThickness, width |-> wallThickness, height |-> Pct(MAP_H, 35)],
    [x |-> 0, y |-> Pct(MAP_H, 35), width |-> Pct(MAP_W, 25), height |-> wallThickness],
    [x |-> Pct(MAP_W, 45), y |-> Pct(MAP_H, 20), width |-> wallThickness, height |-> Pct(MAP_H, 50)],
    [x |-> Pct(MAP_W, 65), y |-> 0, width |-> wallThickness, height |-> Pct(MAP_H, 50)],
    [x |-> Pct(MAP_W, 70), y |-> Pct(MAP_H, 45), width |-> Pct(MAP_W, 30), height |-> wallThickness],
    [x |-> 0, y |-> Pct(MAP_H, 80), width |-> Pct(MAP_W, 60), height |-> wallThickness],
    [x |-> Pct(MAP_W, 55), y |-> Pct(MAP_H, 65), width |-> wallThickness, height |-> Pct(MAP_H, 35)],
    [x |-> Pct(MAP_W, 20), y |-> Pct(MAP_H, 50), width |-> Pct(MAP_W, 20), height |-> wallThickness],
    [x |-> Pct(MAP_W, 10), y |-> Pct(MAP_H, 50), width |-> wallThickness, height |-> Pct(MAP_H, 30)],
    [x |-> Pct(MAP_W, 75), y |-> Pct(MAP_H, 60), width |-> wallThickness, height |-> Pct(MAP_H, 20)],
    [x |-> Pct(MAP_W, 15), y |-> Pct(MAP_H, 70), width |-> wallThickness, height |-> Pct(MAP_H, 30)],
    [x |-> Pct(MAP_W, 80), y |-> Pct(MAP_H, 15), width |-> Pct(MAP_W, 20), height |-> wallThickness] >>

cellSize == 1000

\* a build that files each wall under the cell of its top-left corner only
gridBuild_corner(walls) ==
    LET cellsOf(w) == {<<w.x \div cellSize, w.y \div cellSize>>}
        keys == UNION {cellsOf(walls[i]) : i \in DOMAIN walls}
    IN [k \in keys |-> {i \in DOMAIN walls : k \in cellsOf(walls[i])}]

\* SpatialGrid.build: cell key -> the walls (by index) whose box overlaps the cell
gridBuild(walls) ==
    LET cellsOf(w) == {<<cx, cy>> : cx \in (w.x \div cellSize)..((w.x + w.width) \div cellSize),
                                    cy \in (w.y \div cellSize)..((w.y + w.height) \div cellSize)}
        keys == UNION {cellsOf(walls[i]) : i \in DOMAIN walls}
    IN [k \in keys |-> {i \in DOMAIN walls : k \in cellsOf(walls[i])}]

wallGrid == gridBuild(WALLS)

\* SpatialGrid.getNearbyWalls, x, y and radius in position units
getNearbyWalls(grid, x, y, radius) ==
    IF ~(IsFinite(x) /\ IsFinite(y)) THEN {}
    ELSE LET searchRadius == ((radius + cellSize * PX - 1) \div (cellSize * PX)) + 1
             cx == x \div (cellSize * PX)
             cy == y \div (cellSize * PX)
             keys == {<<cx + dx, cy + dy>> : dx \in (0 - searchRadius)..searchRadius,
                                            dy \in (0 - searchRadius)..searchRadius}
         IN UNION {grid[k] : k \in keys \cap DOMAIN grid}

\* distance from (x, y) to the closest point of the wall is < radius
CircleHitsWall(wall, x, y, radius) ==
    LET closestX == jsMax(wall.x * PX, jsMin(x, (wall.x + wall.width) * PX))
        closestY == jsMax(wall.y * PX, jsMin(y, (wall.y + wall.height) * PX))
        distX == jsAbs(jsAdd(x, jsNeg(closestX)))
        distY == jsAbs(jsAdd(y, jsNeg(closestY)))
    IN /\ jsLt(distX, radius)
       /\ jsLt(distY, radius)
       /\ distX * distX + distY * distY < radius * radius

checkWallCollisionOptimized(x, y, radius) ==
    \E i \in getNearbyWalls(wallGrid, x, y, radius) : CircleHitsWall(WALLS[i], x, y, radius)

PLAYER_RADIUS == 26
STALE_PLAYER_TIMEOUT == 30000

\* the values (Math.random() - 0.5) * 80 is taken to produce, in pixels
SpawnOffsets == {-40, 0, 39}
gridStep == 50

\* the grid of candidate positions findTopLeftSpawn scans, row by row
SpawnCandidates ==
    [k \in 1..121 |-> [x |-> MAP_PADDING + 100 + gridStep * ((k - 1) % 11),
                       y |-> MAP_PADDING + 100 + gridStep * ((k - 1) \div 11)]]

SpawnFinals(k) ==
    {[x |-> (SpawnCandidates[k].x + ox) * PX, y |-> (SpawnCandidates[k].y + oy) * PX] :
        ox \in SpawnOffsets, oy \in SpawnOffsets}

\* candidate k passes the first test; the final positions that pass the second
SpawnFree(k) ==
    ~checkWallCollisionOptimized(SpawnCandidates[k].x * PX, SpawnCandidates[k].y * PX,
                                 (PLAYER_RADIUS + 50) * PX)
SpawnOk(k) == {f \in SpawnFinals(k) : ~checkWallCollisionOptimized(f.x, f.y, PLAYER_RADIUS * PX)}

\* the scan can go past candidate k
SpawnSkips(k) == ~SpawnFree(k) \/ SpawnOk(k) # SpawnFinals(k)

\* every position findTopLeftSpawn can return
findTopLeftSpawn ==
    LET N == Len(SpawnCandidates)
        reached == {k \in 1..N : \A j \in 1..(k - 1) : SpawnSkips(j)}
    IN UNION {SpawnOk(k) : k \in {j \in reached : SpawnFree(j)}}
       \cup (IF \A k \in 1..N : SpawnSkips(k)
             THEN {[x |-> (MAP_PADDING + 150) * PX, y |-> (MAP_PADDING + 150) * PX]}
             ELSE {})

joinP1(s) ==
    /\ conn[s] = "open"
    /\ \E spawn \in findTopLeftSpawn :
         LET p == [id |-> s, x |-> spawn.x, y |-> spawn.y, vx |-> 0, vy |-> 0,
                   lastProcessedInput |-> 0, lastHeard |-> now]
         IN /\ players' = Put(players, s, p)
            /\ emitted' = <<[ev |-> "currentPlayers", to |-> {s}],
                            [ev |-> "newPlayer", id |-> s, to |-> Sockets \ {s}]>>
    /\ op' = <<"join", s, 0, "">>
    /\ UNCHANGED <<conn, now, lastApplied>>
    /\ UNCHANGED wsVars
    /\ UNCHANGED fnVars
    /\ UNCHANGED snapshotPos
    /\ announced' = [announced EXCEPT ![s] = "newPlayer"]

ApplyInputP1(player, seq, dt, mix, miy) ==
    LET ix0 == jsMul(NumberOr(mix, 0), UNIT)
        iy0 == jsMul(NumberOr(miy, 0), UNIT)
        len == jsHypot(NumberOr(mix, 0), NumberOr(miy, 0))
        big == jsGt(len, 0)
        ix == IF big THEN jsDiv(ix0, len) ELSE ix0
        iy == IF big THEN jsDiv(iy0, len) ELSE iy0
        vx == jsDiv(jsMul(ix, SPEED), UNIT)
        vy == jsDiv(jsMul(iy, SPEED), UNIT)
        newX == jsAdd(player.x, Displacement(vx, dt))
        newY == jsAdd(player.y, Displacement(vy, dt))
        free == ~checkWallCollisionOptimized(newX, newY, PLAYER_RADIUS * PX)
        x1 == IF free THEN newX ELSE player.x
        y1 == IF free THEN newY ELSE player.y
    IN [player EXCEPT !.lastProcessedInput = seq,
                      !.vx = vx, !.vy = vy,
                      !.x = clamp(x1, MAP_PADDING * PX, (MAP_W - MAP_PADDING) * PX),
                      !.y = clamp(y1, MAP_PADDING * PX, (MAP_H - MAP_PADDING) * PX)]

\* the input messages tried against this server
DtValuesP1 == {NaN, 300, -600}
InputVectorsP1 == {<<0, 0>>, <<3, -4>>}

\* mutation of IsStaleSeq: the comparison is strict
IsStaleSeq_strict(seq, last) == jsLt(seq, last)

\* `if (seq <= player.lastProcessedInput) return;`
IsStaleSeq(seq, last) == jsLe(seq, last)

inputP1(s, mseq, mdt, mix, miy) ==
    /\ conn[s] = "open"
    /\ emitted' = <<>>
    /\ IF s \notin DOMAIN players
       THEN /\ op' = <<"input", s, mseq, "return">>
            /\ UNCHANGED players
       ELSE LET player == [players[s] EXCEPT !.lastHeard = now]
                seq == NumberOr(mseq, 0)
                dt == jsMin(NumberOr(mdt, DT_UNITS \div TICK_RATE), MAX_INPUT_DT)
            IN IF IsStaleSeq(seq, player.lastProcessedInput)
               THEN /\ players' = [players EXCEPT ![s] = player]
                    /\ op' = <<"input", s, mseq, "discarded">>
               ELSE /\ players' = [players EXCEPT ![s] = ApplyInputP1(player, seq, dt, mix, miy)]
                    /\ op' = <<"input", s, mseq, "applied">>
    /\ UNCHANGED <<conn, now, lastApplied>>
    /\ UNCHANGED wsVars
    /\ UNCHANGED fnVars
    /\ UNCHANGED snapshotPos
    /\ UNCHANGED announced

SocketOrder == <<"s1", "s2">>

\* mutation of staleIds: the operands of the subtraction are swapped
staleIds_swapped(ps, t) == {id \in DOMAIN ps : ps[id].lastHeard - t > STALE_PLAYER_TIMEOUT}

\* the players whose last message is older than the timeout
staleIds(ps, t) == {id \in DOMAIN ps : t - ps[id].lastHeard > STALE_PLAYER_TIMEOUT}

tickP1 ==
    LET stale == staleIds(players, now)
        left == [i \in 1..Len(SocketOrder) |-> [ev |-> "playerLeft", id |-> SocketOrder[i], to |-> Sockets]]
        kept == [id \in (DOMAIN players) \ stale |-> players[id]]
    IN /\ players' = kept
       /\ emitted' = SelectSeq(left, LAMBDA e : e.id \in stale) \o
                     (IF DOMAIN kept # {}
                      THEN <<[ev |-> "stateSnapshot", players |-> Snapshot(kept), to |-> Sockets]>>
                      ELSE <<>>)
       /\ op' = <<"tick", "", 0, "">>
       /\ UNCHANGED <<conn, now, lastApplied>>
       /\ UNCHANGED wsVars
       /\ UNCHANGED fnVars
       /\ UNCHANGED snapshotPos
       /\ announced' = [t \in Sockets |-> IF t \in stale THEN "playerLeft" ELSE announced[t]]

\* the disconnect handler of this server
disconnectP1(s) ==
    /\ conn[s] = "open"
    /\ conn' = [conn EXCEPT ![s] = "closed"]
    /\ op' = <<"disconnect", s, 0, "">>
    /\ IF s \in DOMAIN players
       THEN /\ players' = Remove(players, s)
            /\ emitted' = <<[ev |-> "playerLeft", id |-> s, to |-> Sockets \ {s}]>>
            /\ announced' = [announced EXCEPT ![s] = "playerLeft"]
       ELSE /\ UNCHANGED <<players, announced>>
            /\ emitted' = <<>>
    /\ UNCHANGED <<now, lastApplied>>
    /\ UNCHANGED wsVars
    /\ UNCHANGED fnVars
    /\ UNCHANGED snapshotPos

\* Date.now() moves on between two handlers
clock ==
    /\ now + TimeStep <= MaxTime
    /\ now' = now + TimeStep
    /\ UNCHANGED <<players, conn, emitted, op, lastApplied>>
    /\ UNCHANGED wsVars
    /\ UNCHANGED fnVars
    /\ UNCHANGED snapshotPos
    /\ UNCHANGED announced

Init ==
    /\ players = <<>>
    /\ conn = [s \in Sockets |-> "new"]
    /\ now = 0
    /\ emitted = <<>>
    /\ op = <<"init", "", 0, "">>
    /\ snapshotPos = <<>>
    /\ announced = [s \in Sockets |-> ""]
    /\ lastApplied = [s \in Sockets |-> 0]
    /\ session = [s \in Sockets |-> ""]
    /\ nextPlayerId = 1
    /\ mobs = <<>>
    /\ ticks = 0
    /\ chatLog = <<>>
    /\ leftCount = <<>>
    /\ FnIdle

Next ==
    \/ \E s \in Sockets : connection(s)
    \/ \E s \in Sockets : join(s)
    \/ \E s \in Sockets, mseq \in SeqValues, mdt \in DtValues, v \in InputVectors :
          input(s, mseq, mdt, v[1], v[2])
    \/ \E s \in Sockets : disconnect(s)
    \/ snapshotTick

Spec == Init /\ [][Next]_vars

NextP1 ==
    \/ \E s \in Sockets : connection(s)
    \/ \E s \in Sockets : joinP1(s)
    \/ \E s \in Sockets, mseq \in SeqValues, mdt \in DtValuesP1, v \in InputVectorsP1 :
          inputP1(s, mseq, mdt, v[1], v[2])
    \/ \E s \in Sockets : disconnectP1(s)
    \/ tickP1
    \/ clock

SpecP1 == Init /\ [][NextP1]_vars

(***************************************************************************)
(* src/server.js, lines 377-896: the socket.io server with petals.  Its    *)
(* connection and disconnect handlers are those of lines 149-215 above.    *)
(* A hotbarSlot of a request is the number it compares as, in tenths (NaN  *)
(* for undefined and for a string that is no number), and the property key *)
(* it indexes player.hotbar with.                                          *)
(***************************************************************************)
HOTBAR_SLOTS == 8

\* the instanceIds Math.random().toString(36) gives the four starting petals of a join
InstanceIdSets == { <<"a", "b", "c", "d">>, <<"e", "f", "g", "h">> }

\* createStartingInventory(): four fireballs, Common to Legendary
createStartingInventory(ids) ==
    [i \in 1..4 |-> [instanceId |-> ids[i], id |-> "fireball",
                     damage |-> 30 * (CASE i = 1 -> 1 [] i = 2 -> 3 [] i = 3 -> 9 [] OTHER -> 27),
                     health |-> 35 * (CASE i = 1 -> 1 [] i = 2 -> 3 [] i = 3 -> 9 [] OTHER -> 27)]]

\* new Array(8).fill(null): the instanceId under each property key, "" for null
emptyHotbar == [k \in {"0", "1", "2", "3", "4", "5", "6", "7"} |-> ""]

\* the positions findTopLeftSpawn returns: the first candidate is free
petalSpawns ==
    {sp \in {[x |-> (750 + ox) * PX, y |-> (750 + oy) * PX] : ox \in {0}, oy \in SpawnOffsets} :
        /\ ~checkWallCollisionOptimized(750 * PX, 750 * PX, (PLAYER_RADIUS + 50) * PX)
        /\ ~checkWallCollisionOptimized(sp.x, sp.y, PLAYER_RADIUS * PX)}

\* socket.on('join')
joinPetal(s) ==
    /\ conn[s] = "open"
    /\ \E spawn \in petalSpawns, ids \in InstanceIdSets :
         LET p == [id |-> s, x |-> spawn.x, y |-> spawn.y, vx |-> 0, vy |-> 0,
                   lastProcessedInput |-> 0, lastHeard |-> now,
                   inventory |-> createStartingInventory(ids), hotbar |-> emptyHotbar]
         IN /\ players' = Put(players, s, p)
            /\ emitted' = <<[ev |-> "currentPlayers", to |-> {s}],
                            [ev |-> "newPlayer", id |-> s, to |-> Sockets \ {s}],
                            [ev |-> "playerInventory", inventory |-> p.inventory,
                             hotbar |-> p.hotbar, to |-> {s}]>>
    /\ op' = <<"join", s, 0, "">>
    /\ UNCHANGED <<conn, now, lastApplied>>
    /\ UNCHANGED wsVars
    /\ UNCHANGED fnVars
    /\ UNCHANGED announced
    /\ snapshotPos' = Remove(snapshotPos, s)

\* the hotbarSlot values of the requests: 0, 7, -1, 8, 2.5, none, and 'abc'
SlotValues ==
    { [num |-> 0, key |-> "0"], [num |-> 70, key |-> "7"], [num |-> -10, key |-> "-1"],
      [num |-> 80, key |-> "8"], [num |-> 25, key |-> "2.5"], [num |-> NaN, key |-> "undefined"],
      [num |-> NaN, key |-> "abc"] }

\* the data of the equipPetal requests; the request with no data at all is the
\* one with hasData FALSE
EquipRequests ==
    {[hasData |-> TRUE, petalInstanceId |-> id, hotbarSlot |-> slot] :
        id \in {"a", "zz"}, slot \in SlotValues}
    \cup {[hasData |-> FALSE, petalInstanceId |-> "", hotbarSlot |-> [num |-> NaN, key |-> "undefined"]]}

\* hotbarSlot < 0 || hotbarSlot >= 8 (tenths; false for NaN on both sides)
slotRejected(slot) == jsLt(slot.num, 0) \/ jsGe(slot.num, HOTBAR_SLOTS * 10)

\* socket.on('equipPetal')
equipPetal(s, data) ==
    /\ conn[s] = "open"
    /\ LET found == IF s \in DOMAIN players
                    THEN {i \in 1..Len(players[s].inventory) :
                             players[s].inventory[i].instanceId = data.petalInstanceId}
                    ELSE {}
           outcome == IF s \notin DOMAIN players THEN "no player"
                      ELSE IF ~data.hasData THEN "throws"
                      ELSE IF slotRejected(data.hotbarSlot) THEN "bad slot"
                      ELSE IF found = {} THEN "no petal"
                      ELSE "equipped"
       IN  /\ op' = <<"equipPetal", s, data.hotbarSlot.num, outcome, data.petalInstanceId>>
           /\ IF outcome = "equipped"
              THEN \E hotbar \in {Put(players[s].hotbar, data.hotbarSlot.key, data.petalInstanceId)} :
                      /\ players' = [players EXCEPT ![s].hotbar = hotbar]
                      /\ emitted' = <<[ev |-> "playerInventory", inventory |-> players[s].inventory,
                                       hotbar |-> hotbar, to |-> {s}]>>
              ELSE /\ UNCHANGED players
                   /\ emitted' = <<>>
    /\ UNCHANGED <<conn, now, lastApplied>>
    /\ UNCHANGED wsVars
    /\ UNCHANGED fnVars
    /\ UNCHANGED snapshotPos
    /\ UNCHANGED announced

NextPetal ==
    \/ \E s \in Sockets : connection(s)
    \/ \E s \in Sockets : joinPetal(s)
    \/ \E s \in Sockets, data \in EquipRequests : equipPetal(s, data)
    \/ \E s \in Sockets : disconnect(s)

SpecPetal == Init /\ [][NextPetal]_vars

(***************************************************************************)
(* src/unnamed/part_001, the SpatialGrid on its own: build and             *)
(* getNearbyWalls are called with wall sets and query points that include  *)
(* negative coordinates and points outside the map.                        *)
(***************************************************************************)

\* a wall set with walls left of, above and beyond the map, and one wall over several cells
outerWalls == <<
    [x |-> -2500, y |-> -700, width |-> 1800, height |-> 300],
    [x |-> 11800, y |-> 11900, width |-> 900, height |-> 600],
    [x |-> 950, y |-> 950, width |-> 100, height |-> 100],
    [x |-> -3000, y |-> 3900, width |-> 6500, height |-> 200] >>

\* one small wall inside one cell
singleWall == <<[x |-> 20, y |-> 3950, width |-> 60, height |-> 60]>>

\* the wall sets given to build
WallLayouts == {WALLS, outerWalls, singleWall}

\* the coordinates (px) and the radii (px) of the queries
QueryCoords == {-2600, -30, 40, 999, 4000, 12500}
QueryRadii == {PLAYER_RADIUS, PLAYER_RADIUS + 50, 1200}

\* wallGrid.build(walls)
build(ws) ==
    /\ spatial' = [walls |-> ws, grid |-> gridBuild(ws)]
    /\ op' = <<"build", "", 0, "">>
    /\ UNCHANGED <<players, conn, now, emitted, lastApplied, snapshotPos, announced, nearby, entity, rect, startup>>
    /\ UNCHANGED wsVars

\* wallGrid.getNearbyWalls(x, y, radius)
query(x, y, radius) ==
    /\ nearby' = [x |-> x, y |-> y, radius |-> radius,
                  walls |-> getNearbyWalls(spatial.grid, x, y, radius)]
    /\ op' = <<"getNearbyWalls", "", 0, "">>
    /\ UNCHANGED <<players, conn, now, emitted, lastApplied, snapshotPos, announced, spatial, entity, rect, startup>>
    /\ UNCHANGED wsVars

NextGrid ==
    \/ \E ws \in WallLayouts : build(ws)
    \/ \E x \in QueryCoords, y \in QueryCoords, radius \in QueryRadii :
          query(x * PX, y * PX, radius * PX)

SpecGrid == Init /\ [][NextGrid]_vars

(***************************************************************************)
(* unnamed/part_000: the WebSocket server.                                 *)
(* Units: wall and spawn geometry in px; the positions of players and      *)
(* mobs in 1/POS px, so that one tick adds vx * TICK_DT exactly;           *)
(* velocities in px/s; mob.lastAttackTime in ticks.                        *)
(***************************************************************************)
POS == 20

MAP_HALF == 9000
MAP_SIZE == MAP_HALF * 2
WS_TICK_RATE == 20
CHAT_MAX_PER_WINDOW == 2
CHAT_WINDOW_MS == 1000
CELL == MAP_SIZE \div 12
EQUIP_SLOTS == 5

\* damageMul and buffDurationMul are in 1/MUL
MUL == 100

\* a property that is missing from a parsed message or from an object
Undefined == 2000000001

\* the number a value is converted to in an arithmetic expression
ToNumber(v) == IF v = Undefined THEN NaN ELSE v

gridToWorldCenter(col, row) ==
    [x |-> ((2 * col - 1) * CELL) \div 2 - MAP_HALF,
     y |-> ((2 * row - 1) * CELL) \div 2 - MAP_HALF]

centerlineGrid ==
    << <<2,1>>, <<2,3>>, <<4,3>>, <<4,1>>, <<6,1>>, <<6,3>>, <<8,3>>, <<8,1>>, <<10,1>>,
       <<10,3>>, <<10,5>>, <<8,5>>, <<8,7>>, <<6,7>>, <<6,5>>, <<4,5>>, <<4,7>>, <<2,7>>,
       <<2,9>>, <<4,9>>, <<4,11>>, <<6,11>>, <<6,9>>, <<8,9>>, <<8,11>>, <<10,11>> >>

centerline ==
    [i \in 1..Len(centerlineGrid) |-> gridToWorldCenter(centerlineGrid[i][1], centerlineGrid[i][2])]

\* the unit vector of (vx, vy); every segment of the centerline is parallel
\* to an axis, so the unit vector is the pair of the signs
normalize(vx, vy) == [x |-> jsSign(vx), y |-> jsSign(vy)]

\* c * half / Math.hypot(nx, ny), rounded as Math.round rounds the polygon's
\* points, for a sum (nx, ny) of two unit normals and its component c: the
\* hypot is 2 where the two segments are collinear and sqrt(2) at a corner
OffsetOf(c, nx, ny, half) ==
    IF nx # 0 /\ ny # 0
    THEN LET q == ISqrt((half * half) \div 2)
             r == IF (2 * q + 1) * (2 * q + 1) <= 2 * half * half THEN q + 1 ELSE q
         IN  c * r
    ELSE (c * half) \div (jsAbs(nx) + jsAbs(ny))

polylineToThickPolygon(points, thickness) ==
    LET n == Len(points)
        half == thickness \div 2
        normals == [i \in 1..(n - 1) |->
                       LET dir == normalize(points[i + 1].x - points[i].x,
                                            points[i + 1].y - points[i].y)
                       IN  [x |-> 0 - dir.y, y |-> dir.x]]
        off(i) == IF i = 1 THEN [x |-> normals[1].x * half, y |-> normals[1].y * half]
                  ELSE IF i = n THEN [x |-> normals[n - 1].x * half, y |-> normals[n - 1].y * half]
                  ELSE LET sx == normals[i - 1].x + normals[i].x
                           sy == normals[i - 1].y + normals[i].y
                       IN  IF sx = 0 /\ sy = 0
                           THEN [x |-> normals[i].x * half, y |-> normals[i].y * half]
                           ELSE [x |-> OffsetOf(sx, sx, sy, half), y |-> OffsetOf(sy, sx, sy, half)]
        left == [i \in 1..n |-> [x |-> points[i].x + off(i).x, y |-> points[i].y + off(i).y]]
        right == [i \in 1..n |-> [x |-> points[i].x - off(i).x, y |-> points[i].y - off(i).y]]
    IN  IF n < 2 THEN <<>> ELSE left \o [i \in 1..n |-> right[n + 1 - i]]

WALL_THICKNESS_WORLD == jsMax((CELL * 9) \div 10, 536)

\* the one polygon of `walls`
walls == <<[points |-> polylineToThickPolygon(centerline, WALL_THICKNESS_WORLD)]>>

\* the even-odd ray cast of pointInsideWall for one polygon; the comparison
\* x < (xj - xi) * (y - yi) / (yj - yi) + xi is multiplied out by yj - yi
InsidePolygon(poly, x, y) ==
    LET n == Len(poly)
        crosses(i) ==
            LET j == IF i = 1 THEN n ELSE i - 1
                xi == poly[i].x
                yi == poly[i].y
                xj == poly[j].x
                yj == poly[j].y
            IN  /\ (yi > y) # (yj > y)
                /\ IF yj > yi THEN (x - xi) * (yj - yi) < (xj - xi) * (y - yi)
                              ELSE (x - xi) * (yj - yi) > (xj - xi) * (y - yi)
    IN  Cardinality({i \in 1..n : crosses(i)}) % 2 = 1

pointInsideWall(x, y) == \E k \in 1..Len(walls) : InsidePolygon(walls[k].points, x, y)

mobDefs ==
    [goblin |-> [maxHp |-> 120, atk |-> 14, speed |-> 140, xp |-> 12, respawn |-> 12, radius |-> 40],
     wolf   |-> [maxHp |-> 180, atk |-> 20, speed |-> 170, xp |-> 20, respawn |-> 18, radius |-> 40],
     golem  |-> [maxHp |-> 420, atk |-> 34, speed |-> 60,  xp |-> 60, respawn |-> 25, radius |-> 46]]

purpleGridCoords ==
    << <<-3,10>>, <<3,10>>, <<8,6>>, <<5,2>>, <<1,-1>>, <<4,-4>>,
       <<-2,-5>>, <<-6,-3>>, <<-7,1>>, <<-6,5>>, <<-1,4>> >>

squareWorld == MAP_SIZE \div 20

mobSpawnPoints ==
    [i \in 1..Len(purpleGridCoords) |->
        [x |-> purpleGridCoords[i][1] * squareWorld, y |-> purpleGridCoords[i][2] * squareWorld]]

\* the mobs spawnMobAt is called for at start-up, in the order of the calls:
\* per spawn point five goblins, two golems, three wolves
spawnTypes ==
    <<"goblin", "goblin", "goblin", "goblin", "goblin", "golem", "golem", "wolf", "wolf", "wolf">>

\* the mobs the model keeps, by the number nextMobId gives them
ModelledMobs == {91}

\* the first goblin of the first spawn point, which lies on the edge of the map
EdgeMobs == {1}

mobId(n) == "mob_" \o ToString(n)

jitter == 120 * 3

\* the offsets (Math.random() * jitter * 2 - jitter) is taken to produce, as <<dx, dy>>
JitterPairs == {<<0, 0>>, <<0 - jitter, 0 - jitter>>}

newMob(n, typeName, sp, x, y) ==
    [id |-> mobId(n), type |-> typeName, x |-> x * POS, y |-> y * POS, vx |-> 0, vy |-> 0,
     hp |-> mobDefs[typeName].maxHp, maxHp |-> mobDefs[typeName].maxHp,
     radius |-> mobDefs[typeName].radius, aggroRadius |-> 650, damageContrib |-> <<>>,
     spawnPoint |-> sp, respawnAt |-> 0, dead |-> FALSE, stunnedUntil |-> 0,
     lastAttackTime |-> 0]

\* the position the fallback loop of spawnMobAt ends at, from step `step`
RECURSIVE spawnFallback(_, _, _, _)
spawnFallback(x, y, radius, step) ==
    IF pointInsideWall(x, y) /\ step < 8
    THEN spawnFallback(x + (IF step % 2 = 0 THEN 1 ELSE -1) * (radius + 20) * (step + 1),
                       y + (IF step % 3 = 0 THEN -1 ELSE 1) * (radius + 20) * (step + 1),
                       radius, step + 1)
    ELSE [x |-> x, y |-> y]

\* the set of mobs spawnMobAt(sp, typeName) can create as the mob number n:
\* at a random point that is inside the limit and outside the wall, or, when
\* all twelve attempts hit a point that is not, at the fallback position
spawnMobAt(n, sp, typeName) ==
    LET def == mobDefs[typeName]
        limit == MAP_HALF - def.radius - 12
        tries == {[x |-> sp.x + j[1], y |-> sp.y + j[2]] : j \in JitterPairs}
        good(p) == /\ ~(p.x < 0 - limit \/ p.x > limit \/ p.y < 0 - limit \/ p.y > limit)
                   /\ ~pointInsideWall(p.x, p.y)
        fb == spawnFallback(sp.x, sp.y, def.radius, 0)
    IN  {newMob(n, typeName, sp, p.x, p.y) : p \in {q \in tries : good(q)}}
        \cup (IF \E q \in tries : ~good(q) THEN {newMob(n, typeName, sp, fb.x, fb.y)} ELSE {})

\* the contents `mobs` can have after start-up, restricted to the mobs numbered in M
initialMobsOf(M) ==
    LET spOf(n) == mobSpawnPoints[((n - 1) \div Len(spawnTypes)) + 1]
        typeOf(n) == spawnTypes[((n - 1) % Len(spawnTypes)) + 1]
    IN  {f \in [{mobId(n) : n \in M} ->
                   UNION {spawnMobAt(n, spOf(n), typeOf(n)) : n \in M}] :
            \A k \in DOMAIN f : f[k].id = k}

initialMobs == initialMobsOf(ModelledMobs)

bottomLeftSpawn == [x |-> (2 * (0 - MAP_HALF) + CELL * 3) \div 2, y |-> (2 * MAP_HALF - CELL * 3) \div 2]

\* an empty equipment slot (null); an item has `has` and its stats
noItem == [has |-> FALSE, maxHp |-> 0, baseDamage |-> 0, baseSpeed |-> 0, damageMul |-> 0,
           buffDurationMul |-> 0]

createPlayerRuntime(id, t) ==
    [id |-> id, x |-> bottomLeftSpawn.x * POS, y |-> bottomLeftSpawn.y * POS, vx |-> 0, vy |-> 0,
     radius |-> 28, lastInput |-> [x |-> 0, y |-> 0], lastProcessedInput |-> Undefined,
     lastSeen |-> t, chatTimestamps |-> <<>>, cooldowns |-> <<>>,
     maxHp |-> 200, hp |-> 200, xp |-> 0, nextLevelXp |-> 100, level |-> 1,
     baseDamage |-> 18, baseSpeed |-> 380, damageMul |-> MUL, buffDurationMul |-> MUL,
     equipment |-> [i \in 1..EQUIP_SLOTS |-> noItem],
     _baseMaxHp |-> 200, _baseBaseSpeed |-> 380, _baseBaseDamage |-> 18]

\* the player ids in the order of insertion into the Map
RECURSIVE idOrder(_, _)
idOrder(ids, n) ==
    IF n >= nextPlayerId THEN <<>>
    ELSE (IF ToString(n) \in ids THEN <<ToString(n)>> ELSE <<>>) \o idOrder(ids, n + 1)

\* the receivers of broadcast(obj): the players whose socket is open
openPlayers(ps, sess, cn) == {sess[s] : s \in {t \in Sockets : cn[t] = "open"}} \cap DOMAIN ps

\* an input branch that applies the input to the velocity at once
stageInput_applied(ps, id, msg) ==
    [ps EXCEPT ![id].lastInput = IF msg.hasInput THEN [x |-> msg.x, y |-> msg.y]
                                                 ELSE [x |-> 0, y |-> 0],
               ![id].vx = IF msg.hasInput THEN jsMul(ToNumber(msg.x), ps[id].baseSpeed) ELSE 0]

\* the input branch of the message handler, for the player `id`
stageInput(ps, id, msg) ==
    LET staged == [ps EXCEPT ![id].lastInput =
                       IF msg.hasInput THEN [x |-> msg.x, y |-> msg.y] ELSE [x |-> 0, y |-> 0]]
    IN  IF msg.seq # Undefined
        THEN [staged EXCEPT ![id].lastProcessedInput = msg.seq]
        ELSE staged

\* a filter with half the window
chatFilter_half(timestamps, t) == SelectSeq(timestamps, LAMBDA ts : 2 * (t - ts) < CHAT_WINDOW_MS)

\* chatTimestamps.filter(ts => now - ts < CHAT_WINDOW_MS)
chatFilter(timestamps, t) == SelectSeq(timestamps, LAMBDA ts : t - ts < CHAT_WINDOW_MS)

\* the input messages of the model: msg.seq (Undefined: not a number), whether
\* msg.input is truthy, and the x and y of msg.input (Undefined: not there)
InputMsgs ==
    {[seq |-> 2, hasInput |-> TRUE, x |-> -40, y |-> 40],
     [seq |-> 1, hasInput |-> FALSE, x |-> Undefined, y |-> Undefined],
     [seq |-> Undefined, hasInput |-> TRUE, x |-> Undefined, y |-> Undefined]}

wsConnection(s) ==
    /\ conn[s] \in {"new", "closed"}
    /\ conn' = [conn EXCEPT ![s] = "open"]
    /\ session' = [session EXCEPT ![s] = ""]
    /\ emitted' = <<>>
    /\ op' = <<"connection", "", 0, "">>
    /\ UNCHANGED <<players, now, lastApplied, nextPlayerId, mobs, ticks, chatLog, leftCount>>
    /\ UNCHANGED fnVars
    /\ UNCHANGED snapshotPos
    /\ UNCHANGED announced

wsJoin(s) ==
    /\ conn[s] = "open"
    /\ session[s] # "" \/ nextPlayerId <= MaxPlayers
    /\ op' = <<"join", "", 0, IF session[s] # "" THEN "return" ELSE "joined">>
    /\ IF session[s] # ""
       THEN /\ emitted' = <<>>
            /\ UNCHANGED <<players, session, nextPlayerId, chatLog, leftCount>>
       ELSE LET id == ToString(nextPlayerId)
                ps == Put(players, id, createPlayerRuntime(id, now))
                sess == [session EXCEPT ![s] = id]
            IN  /\ players' = ps
                /\ session' = sess
                /\ nextPlayerId' = nextPlayerId + 1
                /\ emitted' = <<[ev |-> "welcome", id |-> id, to |-> {id}],
                                [ev |-> "newPlayer", id |-> id, to |-> openPlayers(ps, sess, conn)]>>
                /\ chatLog' = Put(chatLog, id, <<>>)
                /\ leftCount' = Put(leftCount, id, 0)
    /\ UNCHANGED <<conn, now, lastApplied, mobs, ticks>>
    /\ UNCHANGED fnVars
    /\ UNCHANGED snapshotPos
    /\ UNCHANGED announced

wsInput(s, msg) ==
    /\ conn[s] = "open"
    /\ op' = <<"input", "", 0, IF session[s] = "" THEN "return" ELSE "staged">>
    /\ emitted' = <<>>
    /\ IF session[s] = ""
       THEN UNCHANGED players
       ELSE players' = stageInput(players, session[s], msg)
    /\ UNCHANGED <<conn, now, lastApplied, session, nextPlayerId, mobs, ticks, chatLog, leftCount>>
    /\ UNCHANGED fnVars
    /\ UNCHANGED snapshotPos
    /\ UNCHANGED announced

wsCast(s) ==
    /\ conn[s] = "open"
    /\ op' = <<"cast", "", 0, IF session[s] = "" \/ players[session[s]].hp <= 0 THEN "return" ELSE "">>
    /\ emitted' = <<>>
    /\ UNCHANGED <<players, conn, now, lastApplied, session, nextPlayerId, mobs, ticks, chatLog,
                   leftCount>>
    /\ UNCHANGED fnVars
    /\ UNCHANGED snapshotPos
    /\ UNCHANGED announced

wsChat(s) ==
    /\ conn[s] = "open"
    /\ IF session[s] = ""
       THEN /\ op' = <<"chat", "", 0, "return">>
            /\ emitted' = <<>>
            /\ UNCHANGED <<players, chatLog>>
       ELSE LET id == session[s]
                kept == chatFilter(players[id].chatTimestamps, now)
            IN  IF Len(kept) >= CHAT_MAX_PER_WINDOW
                THEN /\ players' = [players EXCEPT ![id].chatTimestamps = kept]
                     /\ op' = <<"chat", "", 0, "dropped">>
                     /\ emitted' = <<>>
                     /\ UNCHANGED chatLog
                ELSE /\ players' = [players EXCEPT ![id].chatTimestamps = Append(kept, now)]
                     /\ op' = <<"chat", "", 0, "broadcast">>
                     /\ emitted' = <<[ev |-> "chat", id |-> id, ts |-> now,
                                      to |-> openPlayers(players, session, conn)]>>
                     /\ chatLog' = [chatLog EXCEPT ![id] = Append(@, now)]
    /\ UNCHANGED <<conn, now, lastApplied, session, nextPlayerId, mobs, ticks, leftCount>>
    /\ UNCHANGED fnVars
    /\ UNCHANGED snapshotPos
    /\ UNCHANGED announced

\* a close handler that broadcasts playerLeft and keeps the player
wsClose_kept(s) ==
    /\ conn[s] = "open"
    /\ conn' = [conn EXCEPT ![s] = "closed"]
    /\ emitted' = IF session[s] # ""
                  THEN <<[ev |-> "playerLeft", id |-> session[s],
                          to |-> openPlayers(players, session, conn')]>>
                  ELSE <<>>
    /\ op' = <<"close", "", 0, "">>
    /\ UNCHANGED <<players, leftCount, now, lastApplied, session, nextPlayerId, mobs, ticks, chatLog>>
    /\ UNCHANGED fnVars
    /\ UNCHANGED snapshotPos
    /\ UNCHANGED announced

wsClose(s) ==
    /\ conn[s] = "open"
    /\ conn' = [conn EXCEPT ![s] = "closed"]
    /\ IF session[s] # ""
       THEN /\ emitted' = <<[ev |-> "playerLeft", id |-> session[s],
                             to |-> openPlayers(players, session, conn')]>>
            /\ players' = Remove(players, session[s])
            /\ leftCount' = [leftCount EXCEPT ![session[s]] = @ + 1]
            /\ chatLog' = Remove(chatLog, session[s])
            /\ op' = <<"close", "", 0, "left">>
       ELSE /\ emitted' = <<>>
            /\ op' = <<"close", "", 0, "">>
            /\ UNCHANGED <<players, leftCount, chatLog>>
    /\ UNCHANGED <<now, lastApplied, session, nextPlayerId, mobs, ticks>>
    /\ UNCHANGED fnVars
    /\ UNCHANGED snapshotPos
    /\ UNCHANGED announced

\* v * TICK_DT (px/s over one tick) as a displacement in position units
TickStep(v) == IF IsFinite(v) THEN (v * POS) \div WS_TICK_RATE ELSE v

\* damagePlayer(player, amount): the players and the events broadcast
damagePlayer(ps, id, amount, to) ==
    IF ps[id].hp <= 0 THEN [players |-> ps, events |-> <<>>]
    ELSE LET hp == jsMax(0, ps[id].hp - amount)
         IN  [players |-> [ps EXCEPT ![id].hp = hp],
              events  |-> <<[ev |-> "player_hurt", id |-> id, damage |-> amount, hp |-> hp, to |-> to]>>
                          \o (IF hp <= 0 THEN <<[ev |-> "player_died", id |-> id, to |-> to]>>
                                         ELSE <<>>)]

\* the square of Math.hypot(dx, dy) where both are below `reach`, else `reach` squared
\* (a distance that is not below the reach is never compared any further)
DistSq(dx, dy, reach) ==
    IF IsFinite(dx) /\ IsFinite(dy) /\ jsAbs(dx) < reach /\ jsAbs(dy) < reach
    THEN jsMin(dx * dx + dy * dy, reach * reach)
    ELSE reach * reach

\* a target loop that takes the first player of the Map, wherever and however it is
closestPlayer_first(mob, ps, order, target, closestSq) ==
    IF order = <<>> THEN target ELSE Head(order)

\* the target loop of mobAI: the first of the closest living players inside the
\* aggro radius, "" if there is none
RECURSIVE closestPlayer(_, _, _, _, _)
closestPlayer(mob, ps, order, target, closestSq) ==
    IF order = <<>> THEN target
    ELSE LET p == ps[Head(order)]
             d == DistSq(jsAdd(p.x, jsNeg(mob.x)), jsAdd(p.y, jsNeg(mob.y)), mob.aggroRadius * POS)
         IN  IF p.hp > 0 /\ d < closestSq
             THEN closestPlayer(mob, ps, Tail(order), p.id, d)
             ELSE closestPlayer(mob, ps, Tail(order), target, closestSq)

\* the clamp at the end of mobAI and of the player motion
clampToMap(e, limit) ==
    IF jsGt(jsAbs(e.x), limit) \/ jsGt(jsAbs(e.y), limit)
    THEN [e EXCEPT !.x = jsMax(0 - limit, jsMin(limit, e.x)),
                   !.y = jsMax(0 - limit, jsMin(limit, e.y))]
    ELSE e

\* mobAI(mob, dt) for one tick: the mob, the players and the events broadcast.
\* dx / dist * speed is rounded towards zero to whole px/s.
mobAI(mob, ps, t, to) ==
    IF mob.dead \/ (mob.stunnedUntil # 0 /\ mob.stunnedUntil > t)
    THEN [mob |-> mob, players |-> ps, events |-> <<>>]
    ELSE
    LET reach == mob.aggroRadius * POS
        target == closestPlayer(mob, ps, idOrder(DOMAIN ps, 1), "", reach * reach)
        limit == (MAP_HALF - mob.radius - 8) * POS
    IN  IF target = ""
        THEN [mob |-> clampToMap([mob EXCEPT !.vx = 0, !.vy = 0], limit),
              players |-> ps, events |-> <<>>]
        ELSE
        LET dx == ps[target].x - mob.x
            dy == ps[target].y - mob.y
            distSq == DistSq(dx, dy, reach)
            dist == ISqrt(distSq)
            speed == mobDefs[mob.type].speed
            aimed == IF distSq > 0
                     THEN [mob EXCEPT !.vx = (jsSign(dx) * (jsAbs(dx) * speed)) \div dist,
                                      !.vy = (jsSign(dy) * (jsAbs(dy) * speed)) \div dist]
                     ELSE mob
            moved == [aimed EXCEPT !.x = @ + TickStep(aimed.vx), !.y = @ + TickStep(aimed.vy)]
            contact == distSq < ((mobDefs[mob.type].radius + 30) * POS) * ((mobDefs[mob.type].radius + 30) * POS)
            attacks == contact /\ mob.lastAttackTime + 1 >= WS_TICK_RATE
            timed == IF ~contact THEN moved
                     ELSE [moved EXCEPT !.lastAttackTime = IF attacks THEN 0 ELSE @ + 1]
            hurt == IF attacks THEN damagePlayer(ps, target, mobDefs[mob.type].atk, to)
                               ELSE [players |-> ps, events |-> <<>>]
        IN  [mob |-> clampToMap(timed, limit), players |-> hurt.players, events |-> hurt.events]

\* a respawn step that leaves respawnAt as it is
respawnMob_keepAt(mob, t, j) ==
    IF mob.dead /\ mob.respawnAt # 0 /\ t >= mob.respawnAt
    THEN [mob EXCEPT !.dead = FALSE, !.hp = mob.maxHp, !.damageContrib = <<>>,
                     !.x = (mob.spawnPoint.x + j[1]) * POS, !.y = (mob.spawnPoint.y + j[2]) * POS]
    ELSE mob

\* a respawn step that never comes
respawnMob_never(mob, t, j) == mob

\* a respawn step that does not look at the time
respawnMob_early(mob, t, j) ==
    IF mob.dead /\ mob.respawnAt # 0
    THEN [mob EXCEPT !.dead = FALSE, !.hp = mob.maxHp, !.damageContrib = <<>>, !.respawnAt = 0,
                     !.x = (mob.spawnPoint.x + j[1]) * POS, !.y = (mob.spawnPoint.y + j[2]) * POS]
    ELSE mob

\* the respawn step of the tick loop for one mob, at the offset j
respawnMob(mob, t, j) ==
    IF mob.dead /\ mob.respawnAt # 0 /\ t >= mob.respawnAt
    THEN [mob EXCEPT !.dead = FALSE, !.hp = mob.maxHp, !.damageContrib = <<>>, !.respawnAt = 0,
                     !.x = (mob.spawnPoint.x + j[1]) * POS, !.y = (mob.spawnPoint.y + j[2]) * POS]
    ELSE mob

\* the mob loop of the tick: mobs in the order of their ids
RECURSIVE mobLoop(_, _, _, _, _, _)
mobLoop(ms, ps, order, t, j, to) ==
    IF order = <<>> THEN [mobs |-> ms, players |-> ps, events |-> <<>>]
    ELSE LET k == Head(order)
             m == respawnMob(ms[k], t, j)
             r == IF ~m.dead THEN mobAI(m, ps, t, to) ELSE [mob |-> m, players |-> ps, events |-> <<>>]
             rest == mobLoop([ms EXCEPT ![k] = r.mob], r.players, Tail(order), t, j, to)
         IN  [rest EXCEPT !.events = r.events \o @]

\* the player loop of the tick for one player
movePlayer(p) ==
    LET vx == jsMul(ToNumber(p.lastInput.x), p.baseSpeed)
        vy == jsMul(ToNumber(p.lastInput.y), p.baseSpeed)
        moved == [p EXCEPT !.vx = vx, !.vy = vy,
                           !.x = jsAdd(p.x, TickStep(vx)), !.y = jsAdd(p.y, TickStep(vy))]
    IN  clampToMap(moved, (MAP_HALF - p.radius - 8) * POS)

\* mobs.values(): the mobs in the order of their creation
mobOrder ==
    LET ns == {n \in ModelledMobs \cup EdgeMobs : mobId(n) \in DOMAIN mobs}
    IN  [i \in 1..Cardinality(ns) |->
            mobId(CHOOSE n \in ns : Cardinality({m \in ns : m < n}) = i - 1)]

wsSnapshot(ps, ms, to) ==
    [ev |-> "snapshot",
     players |-> [id \in DOMAIN ps |-> [x |-> ps[id].x, y |-> ps[id].y, vx |-> ps[id].vx,
                                        vy |-> ps[id].vy, hp |-> ps[id].hp]],
     mobs |-> [k \in DOMAIN ms |-> [x |-> ms[k].x, y |-> ms[k].y, hp |-> ms[k].hp]],
     to |-> to]

\* the body of the setInterval callback: the mob loop, the player loop, the snapshot
tickLoop ==
    /\ op' = <<"tick", "", 0, "">>
    /\ UNCHANGED <<conn, now, lastApplied, session, nextPlayerId, chatLog, leftCount>>
    /\ UNCHANGED fnVars
    /\ UNCHANGED snapshotPos
    /\ UNCHANGED announced
    /\ \E j \in JitterPairs, to \in {openPlayers(players, session, conn)} :
          \E r \in {mobLoop(mobs, players, mobOrder, now, j, to)} :
             \E ps \in {[id \in DOMAIN r.players |-> movePlayer(r.players[id])]} :
                /\ mobs' = r.mobs
                /\ players' = ps
                /\ emitted' = r.events \o <<wsSnapshot(ps, r.mobs, to)>>

wsTick ==
    /\ ticks < MaxTicks
    /\ tickLoop
    /\ ticks' = ticks + 1

\* the tick with the ticks left uncounted: the interval never stops
wsTickOn ==
    /\ tickLoop
    /\ UNCHANGED ticks

\* Date.now() moves on between two handlers
wsClock ==
    /\ now + ChatStep <= MaxChatTime
    /\ now' = now + ChatStep
    /\ UNCHANGED <<players, conn, emitted, op, lastApplied>>
    /\ UNCHANGED wsVars
    /\ UNCHANGED fnVars
    /\ UNCHANGED snapshotPos
    /\ UNCHANGED announced

InitWS ==
    /\ players = <<>>
    /\ conn = [s \in Sockets |-> "new"]
    /\ now = 0
    /\ emitted = <<>>
    /\ op = <<"init", "", 0, "">>
    /\ snapshotPos = <<>>
    /\ announced = [s \in Sockets |-> ""]
    /\ lastApplied = [s \in Sockets |-> 0]
    /\ session = [s \in Sockets |-> ""]
    /\ nextPlayerId = 1
    /\ mobs \in initialMobs
    /\ ticks = 0
    /\ chatLog = <<>>
    /\ leftCount = <<>>
    /\ FnIdle

NextWS ==
    \/ \E s \in Sockets : wsConnection(s)
    \/ \E s \in Sockets : wsJoin(s)
    \/ \E s \in Sockets, msg \in InputMsgs : wsInput(s, msg)
    \/ \E s \in Sockets : wsCast(s)
    \/ \E s \in Sockets : wsChat(s)
    \/ \E s \in Sockets : wsClose(s)
    \/ wsTick

SpecWS == InitWS /\ [][NextWS]_vars

\* the chat traffic of the WebSocket server with the clock running
NextChat ==
    \/ \E s \in Sockets : wsConnection(s)
    \/ \E s \in Sockets : wsJoin(s)
    \/ \E s \in Sockets : wsChat(s)
    \/ \E s \in Sockets : wsClose(s)
    \/ wsClock

SpecChat == InitWS /\ [][NextChat]_vars

\* the raw messages that are not JSON or that carry no t
BadData == {"", "{bad", "null", "42", "[1]", "{}", "{\"t\":\"\"}", "{\"t\":0}", "{\"name\":\"a\"}"}

\* JSON.parse(data) for the raw messages above: a SyntaxError, null, or a value
\* with the t it carries ("" where t is absent or falsy)
JSONparse(data) ==
    IF data \in {"", "{bad"} THEN [throws |-> TRUE, isNull |-> FALSE, t |-> ""]
    ELSE IF data = "null" THEN [throws |-> FALSE, isNull |-> TRUE, t |-> ""]
    ELSE [throws |-> FALSE, isNull |-> FALSE, t |-> ""]

\* the handler ends before it looks at the kind of the message: JSON.parse
\* throws, msg.t throws on null, or msg.t is falsy
messageDropped(msg) == msg.throws \/ msg.isNull \/ msg.t = ""

\* a catch block that closes the connection
connAfterDrop_close(cn, s) == [cn EXCEPT ![s] = "closed"]

\* the connections after the catch block or the early return
connAfterDrop(cn, s) == cn

\* ws.on('message') for a raw message that is not JSON or has no t
wsDropped(s, data) ==
    /\ conn[s] = "open"
    /\ messageDropped(JSONparse(data))
    /\ conn' = connAfterDrop(conn, s)
    /\ emitted' = <<>>
    /\ op' = <<"message", s, 0, "dropped">>
    /\ UNCHANGED <<players, now, lastApplied, session, nextPlayerId, mobs, ticks, chatLog, leftCount>>
    /\ UNCHANGED fnVars
    /\ UNCHANGED snapshotPos
    /\ UNCHANGED announced

\* the message traffic of the WebSocket server, bad messages included
NextMsg ==
    \/ \E s \in Sockets : wsConnection(s)
    \/ \E s \in Sockets : wsJoin(s)
    \/ \E s \in Sockets, msg \in InputMsgs : wsInput(s, msg)
    \/ \E s \in Sockets : wsChat(s)
    \/ \E s \in Sockets, data \in BadData : wsDropped(s, data)
    \/ \E s \in Sockets : wsClose(s)

SpecMsg == InitWS /\ [][NextMsg]_vars

(***************************************************************************)
(* unnamed/part_000: experience, equipment and damage.  The server defines *)
(* awardXpToPlayer, applyEquipmentBonusesForPlayer and damageMob and calls *)
(* damageMob and applyEquipmentBonusesForPlayer from no handler, so they   *)
(* are modelled as operations a caller applies with arguments of its       *)
(* choice.  XP, hp and damage amounts are whole numbers.                   *)
(***************************************************************************)

\* a loop that stops after its first pass
levelLoop_once(p) ==
    IF p.xp >= p.nextLevelXp
    THEN [p EXCEPT !.xp = @ - p.nextLevelXp,
                   !.level = NumberOr(@, 1) + 1,
                   !.maxHp = NumberOr(@, 200) + 50,
                   !.nextLevelXp = (@ * 13 + 9) \div 10]
    ELSE p

\* the while loop of awardXpToPlayer
RECURSIVE levelLoop(_)
levelLoop(p) ==
    IF p.xp >= p.nextLevelXp
    THEN LET req == p.nextLevelXp
             level == NumberOr(p.level, 1) + 1
             maxHp == NumberOr(p.maxHp, 200) + 50
         IN  levelLoop([p EXCEPT
                 !.xp = @ - req,
                 !.level = level,
                 !.maxHp = maxHp,
                 !.hp = jsMin(maxHp, NumberOr(p.hp, maxHp) + 50),
                 !.nextLevelXp = (req * 13 + 9) \div 10,        \* Math.ceil(req * 1.3)
                 !.damageMul = IF level % 5 = 0 THEN (NumberOr(@, MUL) * 13) \div 10 ELSE @,
                 !.buffDurationMul = IF level % 5 = 0 THEN (NumberOr(@, MUL) * 11) \div 10 ELSE @])
    ELSE p

\* an award that raises the level by one at most
awardXpToPlayer_once(ps, id, amount, to) ==
    LET p == ps[id]
        start == [p EXCEPT !.xp = NumberOr(p.xp, 0) + NumberOr(amount, 0),
                           !.nextLevelXp = NumberOr(@, 100)]
        after == IF start.xp >= start.nextLevelXp
                 THEN [start EXCEPT !.xp = @ - start.nextLevelXp, !.level = @ + 1,
                                    !.maxHp = @ + 50, !.hp = jsMin(start.maxHp + 50, @ + 50),
                                    !.nextLevelXp = (@ * 13 + 9) \div 10]
                 ELSE start
    IN  [players |-> [ps EXCEPT ![id] = after], events |-> <<>>]

\* awardXpToPlayer(player, amount): the players and the events broadcast
awardXpToPlayer(ps, id, amount, to) ==
    LET p == ps[id]
        start == [p EXCEPT !.xp = NumberOr(p.xp, 0) + NumberOr(amount, 0),
                           !.nextLevelXp = NumberOr(@, 100)]
        after == levelLoop(start)
    IN  [players |-> [ps EXCEPT ![id] = after],
         events  |-> IF after.level # start.level
                     THEN <<[ev |-> "player_levelup", id |-> id, level |-> after.level,
                             hpGain |-> 50 * (after.level - start.level),
                             newHp |-> after.hp, newMaxHp |-> after.maxHp, to |-> to]>>
                     ELSE <<>>]

\* the sum of one stat over the slots from i on
RECURSIVE bonusFrom(_, _, _)
bonusFrom(equipArr, i, stat) ==
    IF i > Len(equipArr) THEN 0
    ELSE (IF equipArr[i].has THEN equipArr[i][stat] ELSE 0) + bonusFrom(equipArr, i + 1, stat)

\* a recomputation that leaves hp alone when maxHp does not rise
applyEquipmentBonusesForPlayer_keepHp(p) ==
    LET prevMax == NumberOr(p.maxHp, p._baseMaxHp)
        newMax == jsMax(1, NumberOr(p._baseMaxHp, 200) + bonusFrom(p.equipment, 1, "maxHp"))
        delta == newMax - prevMax
    IN  [p EXCEPT
            !.maxHp = newMax,
            !.hp = IF delta > 0 THEN jsMin(newMax, NumberOr(p.hp, prevMax) + delta)
                                ELSE NumberOr(p.hp, newMax),
            !.baseDamage = jsMax(0, NumberOr(p._baseBaseDamage, 18) + bonusFrom(p.equipment, 1, "baseDamage")),
            !.baseSpeed = jsMax(1, NumberOr(p._baseBaseSpeed, 380) + bonusFrom(p.equipment, 1, "baseSpeed")),
            !.damageMul = jsMax(0, MUL + bonusFrom(p.equipment, 1, "damageMul")),
            !.buffDurationMul = jsMax(0, MUL + bonusFrom(p.equipment, 1, "buffDurationMul"))]

\* applyEquipmentBonusesForPlayer(player)
applyEquipmentBonusesForPlayer(p) ==
    LET prevMax == NumberOr(p.maxHp, p._baseMaxHp)
        newMax == jsMax(1, NumberOr(p._baseMaxHp, 200) + bonusFrom(p.equipment, 1, "maxHp"))
        delta == newMax - prevMax
    IN  [p EXCEPT
            !.maxHp = newMax,
            !.hp = IF delta > 0 THEN jsMin(newMax, NumberOr(p.hp, prevMax) + delta)
                                ELSE jsMin(NumberOr(p.hp, newMax), newMax),
            !.baseDamage = jsMax(0, NumberOr(p._baseBaseDamage, 18) + bonusFrom(p.equipment, 1, "baseDamage")),
            !.baseSpeed = jsMax(1, NumberOr(p._baseBaseSpeed, 380) + bonusFrom(p.equipment, 1, "baseSpeed")),
            !.damageMul = jsMax(0, MUL + bonusFrom(p.equipment, 1, "damageMul")),
            !.buffDurationMul = jsMax(0, MUL + bonusFrom(p.equipment, 1, "buffDurationMul"))]

\* a reduce that starts at an amount nothing in the model exceeds
topDamager_high(contrib, order, best, bestAmount) ==
    IF order = <<>> THEN best
    ELSE IF contrib[Head(order)] > bestAmount + 100000
         THEN Head(order)
         ELSE best

\* the reduce of damageMob over Object.entries(mob.damageContrib): the first
\* of the entries with the greatest amount above 0, "" if there is none
RECURSIVE topDamager(_, _, _, _)
topDamager(contrib, order, best, bestAmount) ==
    IF order = <<>> THEN best
    ELSE IF contrib[Head(order)] > bestAmount
         THEN topDamager(contrib, Tail(order), Head(order), contrib[Head(order)])
         ELSE topDamager(contrib, Tail(order), best, bestAmount)

\* a killer that is the player of the final hit
killerOf_finalHit(contrib, playerId) == playerId

\* the id of the top damager of a mob that dies of a hit of playerId
killerOf(contrib, playerId) == topDamager(contrib, idOrder(DOMAIN contrib, 1), "", 0)

\* a guard that lets every call through
mobIsDown_never(mob) == FALSE

\* the guard of damageMob: the mob has no hp left
mobIsDown(mob) == mob.hp <= 0

\* damageMob(mob, amount, playerId) at the time t: the mobs, the players and the
\* events broadcast
damageMob(ms, ps, k, amount, playerId, t, to) ==
    IF mobIsDown(ms[k]) THEN [mobs |-> ms, players |-> ps, events |-> <<>>]
    ELSE
    LET mob == ms[k]
        hp == mob.hp - amount
        contrib == IF playerId # ""
                   THEN Put(mob.damageContrib, playerId,
                            (IF playerId \in DOMAIN mob.damageContrib
                             THEN mob.damageContrib[playerId] ELSE 0) + amount)
                   ELSE mob.damageContrib
        hurt == [ev |-> "mob_hurt", id |-> mob.id, hp |-> jsMax(0, hp), damage |-> amount, to |-> to]
    IN  IF hp > 0
        THEN [mobs |-> [ms EXCEPT ![k].hp = hp, ![k].damageContrib = contrib],
              players |-> ps, events |-> <<hurt>>]
        ELSE
        LET killerId == killerOf(contrib, playerId)
            xpReward == NumberOr(mobDefs[mob.type].xp, 10)
            award == IF killerId # "" /\ killerId \in DOMAIN ps
                     THEN awardXpToPlayer(ps, killerId, xpReward, to)
                     ELSE [players |-> ps, events |-> <<>>]
        IN  [mobs |-> [ms EXCEPT ![k].hp = hp, ![k].damageContrib = contrib, ![k].dead = TRUE,
                                 ![k].respawnAt = t + NumberOr(mobDefs[mob.type].respawn, 10) * 1000],
             players |-> award.players,
             events |-> <<hurt>> \o award.events
                        \o <<[ev |-> "mob_died", id |-> mob.id, killerId |-> killerId,
                              xp |-> xpReward, to |-> to]>>]

\* the amounts damageMob and damagePlayer are called with
DamageAmounts == {50, 150}
PlayerDamageAmounts == {120}

\* the amounts awardXpToPlayer is called with
XpAmounts == {0, 60, 700}

\* the items of the model and the contents the equipment array is given
ring == [has |-> TRUE, maxHp |-> 50, baseDamage |-> 4, baseSpeed |-> 0, damageMul |-> 20,
         buffDurationMul |-> 0]
charm == [has |-> TRUE, maxHp |-> 25, baseDamage |-> 0, baseSpeed |-> 20, damageMul |-> 0,
          buffDurationMul |-> 10]
EquipmentSets ==
    {[i \in 1..EQUIP_SLOTS |-> noItem],
     [i \in 1..EQUIP_SLOTS |-> IF i = 1 THEN ring ELSE noItem],
     [i \in 1..EQUIP_SLOTS |-> IF i = 1 THEN ring ELSE IF i = 3 THEN charm ELSE noItem]}

\* a caller applies damageMob(mobs.get(k), amount, playerId)
callDamageMob(k, amount, playerId) ==
    /\ \E r \in {damageMob(mobs, players, k, amount, playerId, now,
                           openPlayers(players, session, conn))} :
          /\ mobs' = r.mobs
          /\ players' = r.players
          /\ emitted' = r.events
    /\ op' = <<"damageMob", playerId, amount,
               IF mobs[k].hp <= 0 THEN "return" ELSE IF mobs[k].hp - amount <= 0 THEN "died" ELSE "hurt">>
    /\ UNCHANGED <<conn, now, lastApplied, session, nextPlayerId, ticks, chatLog, leftCount>>
    /\ UNCHANGED fnVars
    /\ UNCHANGED snapshotPos
    /\ UNCHANGED announced

\* a caller applies damagePlayer(players.get(id), amount)
callDamagePlayer(id, amount) ==
    /\ \E r \in {damagePlayer(players, id, amount, openPlayers(players, session, conn))} :
          /\ players' = r.players
          /\ emitted' = r.events
    /\ op' = <<"damagePlayer", id, amount, "">>
    /\ UNCHANGED <<conn, now, lastApplied, session, nextPlayerId, mobs, ticks, chatLog, leftCount>>
    /\ UNCHANGED fnVars
    /\ UNCHANGED snapshotPos
    /\ UNCHANGED announced

\* a caller applies awardXpToPlayer(players.get(id), amount)
callAwardXp(id, amount) ==
    /\ players[id].level < MaxLevel
    /\ \E r \in {awardXpToPlayer(players, id, amount, openPlayers(players, session, conn))} :
          /\ players' = r.players
          /\ emitted' = r.events
    /\ op' = <<"awardXp", id, amount, "">>
    /\ UNCHANGED <<conn, now, lastApplied, session, nextPlayerId, mobs, ticks, chatLog, leftCount>>
    /\ UNCHANGED fnVars
    /\ UNCHANGED snapshotPos
    /\ UNCHANGED announced

\* a caller fills player.equipment and applies applyEquipmentBonusesForPlayer(player)
callApplyEquipment(id, equipArr) ==
    /\ players' = [players EXCEPT
                      ![id] = applyEquipmentBonusesForPlayer([players[id] EXCEPT !.equipment = equipArr])]
    /\ emitted' = <<>>
    /\ op' = <<"applyEquipment", id, 0, "">>
    /\ UNCHANGED <<conn, now, lastApplied, session, nextPlayerId, mobs, ticks, chatLog, leftCount>>
    /\ UNCHANGED fnVars
    /\ UNCHANGED snapshotPos
    /\ UNCHANGED announced

\* Date.now() moves on between two calls
mobClock ==
    /\ now + RespawnStep <= MaxMobTime
    /\ now' = now + RespawnStep
    /\ op' = <<"clock", "", 0, "">>
    /\ UNCHANGED <<players, conn, emitted, lastApplied>>
    /\ UNCHANGED wsVars
    /\ UNCHANGED fnVars
    /\ UNCHANGED snapshotPos
    /\ UNCHANGED announced

\* the server with one connection joined
InitPlayer ==
    /\ players = Put(<<>>, "1", createPlayerRuntime("1", 0))
    /\ conn = [s \in Sockets |-> IF s = "s1" THEN "open" ELSE "new"]
    /\ now = 0
    /\ emitted = <<>>
    /\ op = <<"init", "", 0, "">>
    /\ snapshotPos = <<>>
    /\ announced = [s \in Sockets |-> ""]
    /\ lastApplied = [s \in Sockets |-> 0]
    /\ session = [s \in Sockets |-> IF s = "s1" THEN "1" ELSE ""]
    /\ nextPlayerId = 2
    /\ mobs \in initialMobs
    /\ ticks = 0
    /\ chatLog = Put(<<>>, "1", <<>>)
    /\ leftCount = Put(<<>>, "1", 0)
    /\ FnIdle

NextPlayer ==
    \/ \E id \in DOMAIN players, amount \in PlayerDamageAmounts : callDamagePlayer(id, amount)
    \/ \E id \in DOMAIN players, amount \in XpAmounts : callAwardXp(id, amount)
    \/ \E id \in DOMAIN players, equipArr \in EquipmentSets : callApplyEquipment(id, equipArr)

SpecPlayer == InitPlayer /\ [][NextPlayer]_vars

\* the inputs {x: 35, y: -60} and then none, staged for the first player before
\* the first and the third of three ticks, bring it next to the mob
nearMob(p) ==
    [p EXCEPT !.x = @ + 2 * TickStep(35 * p.baseSpeed), !.y = @ + 2 * TickStep(-60 * p.baseSpeed),
              !.lastProcessedInput = 2]

\* the server with two connections joined, the first player next to the mob or
\* at its spawn position
InitMob ==
    /\ \E p \in {createPlayerRuntime("1", 0), nearMob(createPlayerRuntime("1", 0))} :
          players = Put(Put(<<>>, "1", p), "2", createPlayerRuntime("2", 0))
    /\ conn = [s \in Sockets |-> "open"]
    /\ now = 0
    /\ emitted = <<>>
    /\ op = <<"init", "", 0, "">>
    /\ snapshotPos = <<>>
    /\ announced = [s \in Sockets |-> ""]
    /\ lastApplied = [s \in Sockets |-> 0]
    /\ session = [s \in Sockets |-> IF s = "s1" THEN "1" ELSE "2"]
    /\ nextPlayerId = 3
    /\ mobs \in initialMobs
    /\ ticks = 0
    /\ chatLog = Put(Put(<<>>, "1", <<>>), "2", <<>>)
    /\ leftCount = Put(Put(<<>>, "1", 0), "2", 0)
    /\ FnIdle

NextMob ==
    \/ \E k \in DOMAIN mobs, amount \in DamageAmounts, id \in {"1", "2"} :
          callDamageMob(k, amount, id)
    \/ \E s \in Sockets : wsClose(s)
    \/ wsTick
    \/ mobClock

SpecMob == InitMob /\ [][NextMob]_vars

\* the mobs being killed while the interval keeps ticking and the time goes on
NextRespawn ==
    \/ \E k \in DOMAIN mobs, amount \in DamageAmounts, id \in {"1", "2"} :
          callDamageMob(k, amount, id)
    \/ wsTickOn
    \/ mobClock

\* the server with two connections joined, both players at their spawn position
InitRespawn ==
    /\ players = Put(Put(<<>>, "1", createPlayerRuntime("1", 0)), "2", createPlayerRuntime("2", 0))
    /\ conn = [s \in Sockets |-> "open"]
    /\ now = 0
    /\ emitted = <<>>
    /\ op = <<"init", "", 0, "">>
    /\ snapshotPos = <<>>
    /\ announced = [s \in Sockets |-> ""]
    /\ lastApplied = [s \in Sockets |-> 0]
    /\ session = [s \in Sockets |-> IF s = "s1" THEN "1" ELSE "2"]
    /\ nextPlayerId = 3
    /\ mobs \in initialMobs
    /\ ticks = 0
    /\ chatLog = Put(Put(<<>>, "1", <<>>), "2", <<>>)
    /\ leftCount = Put(Put(<<>>, "1", 0), "2", 0)
    /\ FnIdle

\* the time goes on: every step of the clock up to the last time modelled is
\* taken in the end
SpecRespawn ==
    InitRespawn /\ [][NextRespawn]_vars /\ WF_vars(mobClock)

(***************************************************************************)
(* src/unnamed/part_000, lines 424-471 and 540-572: the mob loop of the    *)
(* tick with the two players standing around the mob, alive or not.        *)
(***************************************************************************)
\* where the players stand, as <<dx, dy>> in px from the mob: in contact, in
\* range, at the aggro radius exactly, on the mob, and far away
StandOffsets == { <<30, 0>>, <<0, -60>>, <<-300, -400>>, <<390, -520>>, <<0, 0>>, <<2000, 0>> }

\* the ticks a mob has been in contact for since its last attack
AttackTimes == {0, WS_TICK_RATE - 1}

\* the server with two connections joined, the players where they walked to,
\* and one mob: number 91 or the one on the edge
InitAI ==
    /\ mobs \in {[k \in DOMAIN ms |-> [ms[k] EXCEPT !.lastAttackTime = a]] :
                    ms \in initialMobs \cup initialMobsOf(EdgeMobs), a \in AttackTimes}
    /\ \E o1 \in StandOffsets, o2 \in StandOffsets :
          LET m == mobs[mobOrder[1]]
              at(id, o) == [createPlayerRuntime(id, 0) EXCEPT !.x = m.x + o[1] * POS,
                                                              !.y = m.y + o[2] * POS]
              limit == (MAP_HALF - 28 - 8) * POS
          IN  /\ players = Put(Put(<<>>, "1", at("1", o1)), "2", at("2", o2))
              /\ \A id \in DOMAIN players :
                    jsAbs(players[id].x) <= limit /\ jsAbs(players[id].y) <= limit
    /\ conn = [s \in Sockets |-> "open"]
    /\ now = 0
    /\ emitted = <<>>
    /\ op = <<"init", "", 0, "">>
    /\ snapshotPos = <<>>
    /\ announced = [s \in Sockets |-> ""]
    /\ lastApplied = [s \in Sockets |-> 0]
    /\ session = [s \in Sockets |-> IF s = "s1" THEN "1" ELSE "2"]
    /\ nextPlayerId = 3
    /\ ticks = 0
    /\ chatLog = Put(Put(<<>>, "1", <<>>), "2", <<>>)
    /\ leftCount = Put(Put(<<>>, "1", 0), "2", 0)
    /\ FnIdle

NextAI ==
    \/ \E id \in DOMAIN players, amount \in PlayerDamageAmounts : callDamagePlayer(id, amount)
    \/ \E s \in Sockets : wsClose(s)
    \/ wsTick

SpecAI == InitAI /\ [][NextAI]_vars

(***************************************************************************)
(* src/unnamed/part_002, lines 298-540: the socket.io server of the        *)
(* polygon maze.  Its MAP_SIZE, MAP_HALF, CELL and gridToWorldCenter are   *)
(* those of unnamed/part_000, defined above; its connection, disconnect    *)
(* and snapshot interval are those of server.js, lines 149-232.  Positions *)
(* are in 1/PX px.                                                         *)
(***************************************************************************)
MAZE_PADDING == 300

\* the values (Math.random() - 0.5) * CELL * 0.3 is taken to produce, in pixels
MazeSpawnOffsets == {-225, 224}

randomSpawnMaze ==
    {[x |-> (gridToWorldCenter(2, 1).x + ox) * PX, y |-> (gridToWorldCenter(2, 1).y + oy) * PX] :
        ox \in MazeSpawnOffsets, oy \in MazeSpawnOffsets}

joinMaze(s) ==
    /\ conn[s] = "open"
    /\ \E spawn \in randomSpawnMaze :
         LET p == [id |-> s, x |-> spawn.x, y |-> spawn.y, vx |-> 0, vy |-> 0,
                   lastProcessedInput |-> 0, lastHeard |-> now]
         IN /\ players' = Put(players, s, p)
            /\ emitted' = <<[ev |-> "currentPlayers", to |-> {s}],
                            [ev |-> "mazeWalls", to |-> {s}],
                            [ev |-> "newPlayer", id |-> s, to |-> Sockets \ {s}]>>
    /\ op' = <<"join", s, 0, "">>
    /\ UNCHANGED <<conn, now, lastApplied>>
    /\ UNCHANGED wsVars
    /\ UNCHANGED fnVars
    /\ UNCHANGED announced
    /\ snapshotPos' = Remove(snapshotPos, s)

\* the player record after an input that passed the sequence check
ApplyInputMaze(player, seq, dt, mix, miy) ==
    LET ix0 == jsMul(NumberOr(mix, 0), UNIT)
        iy0 == jsMul(NumberOr(miy, 0), UNIT)
        len == jsHypot(NumberOr(mix, 0), NumberOr(miy, 0))
        big == jsGt(len, 0)
        ix == IF big THEN jsDiv(ix0, len) ELSE ix0
        iy == IF big THEN jsDiv(iy0, len) ELSE iy0
        vx == jsDiv(jsMul(ix, SPEED), UNIT)
        vy == jsDiv(jsMul(iy, SPEED), UNIT)
        x1 == jsAdd(player.x, Displacement(vx, dt))
        y1 == jsAdd(player.y, Displacement(vy, dt))
    IN [player EXCEPT !.lastProcessedInput = seq,
                      !.vx = vx, !.vy = vy,
                      !.x = clamp(x1, MAZE_PADDING * PX, (MAP_SIZE - MAZE_PADDING) * PX),
                      !.y = clamp(y1, MAZE_PADDING * PX, (MAP_SIZE - MAZE_PADDING) * PX)]

\* the input messages tried against this server
DtValuesMaze == {NaN, 300}
InputVectorsMaze == {<<0, 0>>, <<3, -4>>}

inputMaze(s, mseq, mdt, mix, miy) ==
    /\ conn[s] = "open"
    /\ emitted' = <<>>
    /\ IF s \notin DOMAIN players
       THEN /\ op' = <<"input", s, mseq, "return", <<mix, miy>>>>
            /\ UNCHANGED players
       ELSE LET player == [players[s] EXCEPT !.lastHeard = now]
                seq == NumberOr(mseq, 0)
                dt == jsMin(NumberOr(mdt, DT_UNITS \div TICK_RATE), MAX_INPUT_DT)
            IN IF jsLe(seq, player.lastProcessedInput)
               THEN /\ players' = [players EXCEPT ![s] = player]
                    /\ op' = <<"input", s, mseq, "discarded", <<mix, miy>>>>
               ELSE /\ players' = [players EXCEPT ![s] = ApplyInputMaze(player, seq, dt, mix, miy)]
                    /\ op' = <<"input", s, mseq, "applied", <<mix, miy>>>>
    /\ UNCHANGED <<conn, now, lastApplied>>
    /\ UNCHANGED wsVars
    /\ UNCHANGED fnVars
    /\ UNCHANGED snapshotPos
    /\ UNCHANGED announced

NextMaze ==
    \/ \E s \in Sockets : connection(s)
    \/ \E s \in Sockets : joinMaze(s)
    \/ \E s \in Sockets, mseq \in SeqValues, mdt \in DtValuesMaze, v \in InputVectorsMaze :
          inputMaze(s, mseq, mdt, v[1], v[2])
    \/ \E s \in Sockets : disconnect(s)
    \/ snapshotTick

SpecMaze == Init /\ [][NextMaze]_vars

(***************************************************************************)
(* src/unnamed/part_002, lines 1-305: the collision functions of the       *)
(* socket.io server with wall cells, called on their own.                  *)
(* Units: positions, sizes and radii in 1/GU px, velocities in 1/GU px/s.  *)
(* The entity positions are chosen so that Math.hypot is an integer        *)
(* (offsets along one axis, or 3-4-5 offsets from a corner).  A rectangle  *)
(* that is a radius or more away on one axis is told apart before the      *)
(* squares are taken, which keeps the products in range.                   *)
(***************************************************************************)
GU == 10
CELL_SIZE == MAP_W \div 12

\* a / b rounded to the nearest integer, b > 0
DivRound(a, b) == (2 * a + b) \div (2 * b)

\* generateWalls: one square per grid cell that is not on the centerline, row by row
wallCells ==
    LET isPath(col, row) == \E i \in 1..Len(centerlineGrid) : centerlineGrid[i] = <<col, row>>
        cell(k) == [col |-> (k - 1) % 12, row |-> (k - 1) \div 12]
        all == [k \in 1..144 |-> [x |-> ((0 - MAP_W) \div 2 + cell(k).col * CELL_SIZE) * GU,
                                  y |-> ((0 - MAP_H) \div 2 + cell(k).row * CELL_SIZE) * GU,
                                  w |-> CELL_SIZE * GU, h |-> CELL_SIZE * GU,
                                  path |-> isPath(cell(k).col, cell(k).row)]]
        kept == SelectSeq(all, LAMBDA c : ~c.path)
    IN  [i \in 1..Len(kept) |-> [x |-> kept[i].x, y |-> kept[i].y, w |-> kept[i].w, h |-> kept[i].h]]

\* the closest point of the rectangle to the circle center
closestPoint(e, r) == [x |-> jsMax(r.x, jsMin(e.x, r.x + r.w)), y |-> jsMax(r.y, jsMin(e.y, r.y + r.h))]

\* resolveCircleRect(entity, rect): the entity after the call
resolveCircleRect(e, r) ==
    LET radius == NumberOr(e.radius, 15 * GU)
        c == closestPoint(e, r)
        dx == e.x - c.x
        dy == e.y - c.y
        d2 == dx * dx + dy * dy
        dist == ISqrt(d2)
        overlap == radius - dist + GU \div 2
        vnTimesDist == e.vx * dx + e.vy * dy
        distToLeft == jsAbs(e.x - r.x)
        distToRight == jsAbs(e.x - (r.x + r.w))
        distToTop == jsAbs(e.y - r.y)
        distToBottom == jsAbs(e.y - (r.y + r.h))
        minDist == jsMin(jsMin(distToLeft, distToRight), jsMin(distToTop, distToBottom))
        push == radius + GU \div 2
    IN  IF jsAbs(dx) >= radius \/ jsAbs(dy) >= radius \/ d2 >= radius * radius THEN e
        ELSE IF d2 > 0
        THEN [e EXCEPT !.x = e.x + DivRound(dx * overlap, dist),
                       !.y = e.y + DivRound(dy * overlap, dist),
                       !.vx = IF vnTimesDist > 0 THEN @ - DivRound(vnTimesDist * dx * 8, 10 * d2) ELSE @,
                       !.vy = IF vnTimesDist > 0 THEN @ - DivRound(vnTimesDist * dy * 8, 10 * d2) ELSE @]
        ELSE IF minDist = distToLeft THEN [e EXCEPT !.x = @ - push, !.vx = 0, !.vy = 0]
        ELSE IF minDist = distToRight THEN [e EXCEPT !.x = @ + push, !.vx = 0, !.vy = 0]
        ELSE IF minDist = distToTop THEN [e EXCEPT !.y = @ - push, !.vx = 0, !.vy = 0]
        ELSE [e EXCEPT !.y = @ + push, !.vx = 0, !.vy = 0]

\* the test of resolveCircleRect: the rectangle is closer to the center than the radius
collides(e, r) ==
    LET radius == NumberOr(e.radius, 15 * GU)
        c == closestPoint(e, r)
        dx == e.x - c.x
        dy == e.y - c.y
    IN  jsAbs(dx) < radius /\ jsAbs(dy) < radius /\ dx * dx + dy * dy < radius * radius

\* the loop of constrainEntity over the walls from i on; the calls that return
\* at once are passed over in one step
RECURSIVE resolveWalls(_, _, _)
resolveWalls(e, ws, i) ==
    LET hit == {j \in i..Len(ws) : collides(e, ws[j])}
    IN  IF hit = {} THEN e
        ELSE LET j == CHOOSE k \in hit : \A m \in hit : k <= m
             IN  resolveWalls(resolveCircleRect(e, ws[j]), ws, j + 1)

\* constrainEntity(entity): the entity after the call
constrainEntity(e) ==
    LET radius == NumberOr(e.radius, 15 * GU)
        clamped == [e EXCEPT !.x = clamp(e.x, MAP_PADDING * GU + radius, (MAP_W - MAP_PADDING) * GU - radius),
                             !.y = clamp(e.y, MAP_PADDING * GU + radius, (MAP_H - MAP_PADDING) * GU - radius)]
    IN  resolveWalls(clamped, wallCells, 1)

\* the positions (px) of the entities: beside, at a corner of, on the edge of
\* and inside the wall cell from (0, 0) to (1000, 1000)
EntityPoints ==
    { <<-100, 500>>, <<-10, 500>>, <<-15, 500>>, <<-6, -8>>, <<-9, -12>>, <<1006, 1008>>,
      <<0, 500>>, <<5, 500>>, <<31, 500>>, <<500, 500>>, <<500, 990>>, <<700, 20>>,
      <<1500, 1500>>, <<1500, 1010>>, <<-500, 1500>>, <<12500, 1500>> }

\* the velocities (px/s) and the radii (px, 0: none given) of the entities
EntityVelocities == { <<0, 0>>, <<260, 0>>, <<-260, 0>>, <<0, -260>>, <<156, 208>> }
EntityRadii == {15, 0}

\* the rectangles handed to resolveCircleRect: a wall cell and a thin bar
RectInputs ==
    { [x |-> 0, y |-> 0, w |-> CELL_SIZE * GU, h |-> CELL_SIZE * GU],
      [x |-> -20 * GU, y |-> 480 * GU, w |-> 40 * GU, h |-> 40 * GU] }

\* a caller applies resolveCircleRect(entity, rect)
callResolveCircleRect ==
    /\ entity' = resolveCircleRect(entity, rect)
    /\ op' = <<"resolveCircleRect", "", 0, "">>
    /\ UNCHANGED <<players, conn, now, emitted, lastApplied, snapshotPos, announced, spatial, nearby, rect, startup>>
    /\ UNCHANGED wsVars

\* a caller applies constrainEntity(entity)
callConstrainEntity ==
    /\ \E e \in {constrainEntity(entity)} : entity' = e
    /\ op' = <<"constrainEntity", "", 0, "">>
    /\ UNCHANGED <<players, conn, now, emitted, lastApplied, snapshotPos, announced, spatial, nearby, rect, startup>>
    /\ UNCHANGED wsVars

\* an entity and a rectangle, before any call
InitGeo ==
    /\ players = <<>>
    /\ conn = [s \in Sockets |-> "new"]
    /\ now = 0
    /\ emitted = <<>>
    /\ op = <<"init", "", 0, "">>
    /\ snapshotPos = <<>>
    /\ announced = [s \in Sockets |-> ""]
    /\ lastApplied = [s \in Sockets |-> 0]
    /\ session = [s \in Sockets |-> ""]
    /\ nextPlayerId = 1
    /\ mobs = <<>>
    /\ ticks = 0
    /\ chatLog = <<>>
    /\ leftCount = <<>>
    \* `walls` after the generateWalls() of the start-up; this server keeps no grid
    /\ spatial = [walls |-> wallCells, grid |-> <<>>]
    /\ nearby = [x |-> 0, y |-> 0, radius |-> 0, walls |-> {}]
    /\ \E p \in EntityPoints, v \in EntityVelocities, radius \in EntityRadii :
          entity = [x |-> p[1] * GU, y |-> p[2] * GU, vx |-> v[1] * GU, vy |-> v[2] * GU,
                    radius |-> radius * GU]
    /\ rect \in RectInputs
    /\ startup = [centerline |-> <<>>, walls |-> <<>>]

NextGeo ==
    \/ callResolveCircleRect
    \/ callConstrainEntity

SpecGeo == InitGeo /\ [][NextGeo]_vars

(***************************************************************************)
(* src/unnamed/part_000, lines 93-150: the wall set built at startup, as a *)
(* function of the centerline handed to polylineToThickPolygon.            *)
(***************************************************************************)
GAP == jsMax(24, (CELL * 5) \div 100)

\* box(col, row, wCells, hCells) of the fallback layout
box(col, row, wCells, hCells) ==
    [x |-> (col - 1) * CELL + GAP - MAP_HALF,
     y |-> (row - 1) * CELL + GAP - MAP_HALF,
     w |-> jsMax(1, wCells) * CELL - GAP * 2,
     h |-> jsMax(1, hCells) * CELL - GAP * 2]

\* the rectangular fallback layout
fallbackWalls == <<
    box(1, 1, 12, 1), box(1, 12, 12, 1), box(1, 1, 1, 12), box(12, 1, 1, 12),
    box(2, 2, 1, 3), box(2, 6, 1, 3), box(2, 10, 1, 2), box(3, 2, 4, 1),
    box(6, 3, 1, 3), box(4, 5, 4, 1), box(6, 1, 1, 12), box(8, 2, 1, 2),
    box(10, 2, 1, 2), box(9, 4, 3, 1), box(8, 6, 1, 3), box(10, 9, 1, 2),
    box(3, 8, 2, 1), box(2, 9, 1, 2), box(4, 10, 3, 1), box(7, 9, 2, 1),
    box(9, 10, 2, 1), box(11, 8, 1, 2), box(4, 3, 1, 1), box(5, 6, 1, 1),
    box(8, 4, 1, 1), box(7, 7, 1, 1), box(3, 7, 4, 1), box(5, 4, 1, 2),
    box(9, 5, 1, 2), box(5, 11, 2, 1), box(10, 11, 1, 1), box(6, 4, 1, 1),
    box(8, 8, 1, 1), box(3, 10, 1, 1), box(11, 3, 1, 1), box(7, 3, 1, 1) >>

\* a startup build that keeps whatever polygon it gets
buildWalls_always(points) == <<[points |-> polylineToThickPolygon(points, WALL_THICKNESS_WORLD)]>>

\* the try / catch that builds `walls` from a centerline
buildWalls(points) ==
    LET polyPts == polylineToThickPolygon(points, WALL_THICKNESS_WORLD)
    IN  IF Len(polyPts) >= 3 THEN <<[points |-> polyPts]>> ELSE fallbackWalls

\* the centerlines handed to the build: the runs of the maze centerline, the
\* empty one and the ones of a single point included
Centerlines ==
    {SubSeq(centerline, i, j) : i \in 1..Len(centerline), j \in 0..Len(centerline)}

\* the module is loaded: `walls` is built
startupBuild(points) ==
    /\ startup.walls = <<>>
    /\ startup' = [centerline |-> points, walls |-> buildWalls(points)]
    /\ op' = <<"startup", "", 0, "">>
    /\ UNCHANGED <<players, conn, now, emitted, lastApplied, snapshotPos, announced, spatial, nearby, entity, rect>>
    /\ UNCHANGED wsVars

NextWalls == \E points \in Centerlines : startupBuild(points)

SpecWalls == Init /\ [][NextWalls]_vars

(***************************************************************************)
(* Properties.                                                             *)
(***************************************************************************)
HasEvent(evs, name, id) == \E i \in 1..Len(evs) : evs[i].ev = name /\ evs[i].id = id

InSnapshot(evs, id) ==
    \E i \in 1..Len(evs) : evs[i].ev = "stateSnapshot" /\ id \in DOMAIN evs[i].players

\* C1: on every connection the seq values of the applied inputs are strictly
\* increasing: an applied input has a seq greater than that of every input
\* applied before it on the same connection.
C1_AppliedSeqStrictlyIncreasing ==
    [][\A s \in Sockets :
          (op'[1] = "input" /\ op'[2] = s /\ op'[4] = "applied")
          => jsGt(lastApplied'[s], lastApplied[s])]_vars

\* C3: an input of the socket.io server whose seq (missing or non-numeric
\* read as 0) is not greater than lastProcessedInput leaves the player's
\* x, y, vx, vy and lastProcessedInput unchanged.
C3_StaleInputIsNoOp ==
    [][\A s \in DOMAIN players :
          (/\ op'[1] = "input" /\ op'[2] = s
           /\ jsLe(NumberOr(op'[3], 0), players[s].lastProcessedInput))
          => /\ s \in DOMAIN players'
             /\ players'[s].x = players[s].x
             /\ players'[s].y = players[s].y
             /\ players'[s].vx = players[s].vx
             /\ players'[s].vy = players[s].vy
             /\ players'[s].lastProcessedInput = players[s].lastProcessedInput]_vars

\* a replayed seq was discarded for a player that had moved before
C3_Witness ==
    \E s \in DOMAIN players :
        /\ op[1] = "input" /\ op[2] = s /\ op[3] = 1 /\ op[4] = "discarded"
        /\ players[s].lastProcessedInput >= 1
        /\ players[s].vx # 0

\* the largest displacement per axis of one input: SPEED * MAX_INPUT_DT
MaxStep == (SPEED * MAX_INPUT_DT * PX) \div DT_UNITS

\* C4: whatever dt the client supplies, an applied input changes the
\* player's position by at most SPEED * MAX_INPUT_DT on each axis.
C4_InputDisplacementBounded ==
    [][\A s \in Sockets :
          (/\ op'[1] = "input" /\ op'[2] = s /\ op'[4] = "applied"
           /\ IsFinite(players[s].x) /\ IsFinite(players[s].y)
           /\ IsFinite(players'[s].x) /\ IsFinite(players'[s].y))
          => /\ jsAbs(players'[s].x - players[s].x) <= MaxStep
             /\ jsAbs(players'[s].y - players[s].y) <= MaxStep]_vars

\* C10: a tick removes every player silent for more than
\* STALE_PLAYER_TIMEOUT, emits playerLeft for it and leaves it out of the
\* snapshot; an input from a socket that has no player changes nothing; an
\* explicit disconnect removes the player and emits playerLeft the same way.
C10_StalePlayerRemoved ==
    [][/\ \A s \in DOMAIN players :
             (tickP1 /\ now - players[s].lastHeard > STALE_PLAYER_TIMEOUT)
             => /\ s \notin DOMAIN players'
                /\ HasEvent(emitted', "playerLeft", s)
                /\ ~InSnapshot(emitted', s)
       /\ \A s \in Sockets \ DOMAIN players :
             (op'[1] = "input" /\ op'[2] = s) => players' = players /\ emitted' = <<>>
       /\ \A s \in DOMAIN players :
             disconnect(s) => s \notin DOMAIN players' /\ HasEvent(emitted', "playerLeft", s)]_vars

\* a tick has just removed a player whose connection is still open
C10_Witness ==
    \E s \in Sockets :
        /\ op[1] = "tick"
        /\ conn[s] = "open"
        /\ s \notin DOMAIN players
        /\ HasEvent(emitted, "playerLeft", s)

\* C2: in the WebSocket server an input message whose seq is not greater than
\* the seq last accepted from the player is discarded: the player's lastInput
\* and lastProcessedInput stay as they were.
C2_StaleWsInputDiscarded ==
    [][\A s \in Sockets, msg \in InputMsgs :
          (/\ wsInput(s, msg)
           /\ session[s] # ""
           /\ msg.seq # Undefined
           /\ players[session[s]].lastProcessedInput # Undefined
           /\ msg.seq <= players[session[s]].lastProcessedInput)
          => /\ players'[session[s]].lastInput = players[session[s]].lastInput
             /\ players'[session[s]].lastProcessedInput = players[session[s]].lastProcessedInput]_vars

\* position and velocity of a player or of a mob
Motion(e) == <<e.x, e.y, e.vx, e.vy>>

\* C5: the message handlers input, cast and chat of the WebSocket server leave
\* the position, the velocity and the hp of every player and of every mob as
\* they were; the input handler changes nothing of a player but lastInput and
\* lastProcessedInput; and the position or the velocity of a player or of a
\* mob changes in a tick only.
C5_HandlersLeaveWorldAlone ==
    [][/\ op'[1] \in {"input", "cast", "chat"}
          => /\ DOMAIN players' = DOMAIN players
             /\ \A id \in DOMAIN players :
                   Motion(players'[id]) = Motion(players[id]) /\ players'[id].hp = players[id].hp
             /\ \A k \in DOMAIN mobs :
                   Motion(mobs'[k]) = Motion(mobs[k]) /\ mobs'[k].hp = mobs[k].hp
       /\ op'[1] = "input"
          => \A id \in DOMAIN players :
                [players'[id] EXCEPT !.lastInput = players[id].lastInput,
                                     !.lastProcessedInput = players[id].lastProcessedInput]
                = players[id]
       /\ op'[1] # "tick"
          => /\ \A id \in DOMAIN players \cap DOMAIN players' :
                   Motion(players'[id]) = Motion(players[id])
             /\ \A k \in DOMAIN mobs : Motion(mobs'[k]) = Motion(mobs[k])]_vars

\* an input was staged for a player that is moving, and the velocity is still
\* the one of the input before
C5_Witness ==
    /\ op[1] = "input" /\ op[4] = "staged"
    /\ \E id \in DOMAIN players :
          /\ IsFinite(players[id].vx) /\ players[id].vx # 0
          /\ players[id].lastInput = [x |-> 0, y |-> 0]

\* the square of a player's speed, NaN if the velocity is not finite
SpeedSq(p) ==
    IF IsFinite(p.vx) /\ IsFinite(p.vy) THEN p.vx * p.vx + p.vy * p.vy ELSE NaN

\* C6: after every tick of the WebSocket server the speed of every player is at
\* most baseSpeed, and no player has moved by more than baseSpeed * TICK_DT.
C6_SpeedBoundedByBaseSpeed ==
    [][wsTick =>
          \A id \in DOMAIN players' :
             /\ jsLe(SpeedSq(players'[id]), players'[id].baseSpeed * players'[id].baseSpeed)
             /\ jsLe(jsAbs(jsAdd(players'[id].x, jsNeg(players[id].x))), TickStep(players[id].baseSpeed))
             /\ jsLe(jsAbs(jsAdd(players'[id].y, jsNeg(players[id].y))), TickStep(players[id].baseSpeed))]_vars

\* C7: after every tick of the WebSocket server every player has
\* |x| <= MAP_HALF - radius and |y| <= MAP_HALF - radius.
C7_PlayersInsideMap ==
    [][wsTick =>
          \A id \in DOMAIN players' :
             /\ jsLe(jsAbs(players'[id].x), (MAP_HALF - players'[id].radius) * POS)
             /\ jsLe(jsAbs(players'[id].y), (MAP_HALF - players'[id].radius) * POS)]_vars

\* the number of the times in log that lie less than CHAT_WINDOW_MS before t
RecentChats(log, t) == Cardinality({i \in 1..Len(log) : t - log[i] < CHAT_WINDOW_MS})

\* C8: of the chat events broadcast for one player any three are spread over
\* CHAT_WINDOW_MS or more, so that no window [t, t + CHAT_WINDOW_MS) holds more
\* than CHAT_MAX_PER_WINDOW of them; a chat message is broadcast exactly when
\* fewer than CHAT_MAX_PER_WINDOW events were broadcast for the player in the
\* window that ends now, whatever was dropped before; a dropped message
\* broadcasts nothing; and no chat message changes anything of another player.
C8_ChatRateLimited ==
    /\ [](\A id \in DOMAIN chatLog :
             \A i \in 1..Len(chatLog[id]) :
                i + CHAT_MAX_PER_WINDOW <= Len(chatLog[id])
                => chatLog[id][i + CHAT_MAX_PER_WINDOW] - chatLog[id][i] >= CHAT_WINDOW_MS)
    /\ [][\A s \in Sockets :
             (wsChat(s) /\ session[s] # "")
             => /\ IF RecentChats(chatLog[session[s]], now) >= CHAT_MAX_PER_WINDOW
                   THEN emitted' = <<>> /\ chatLog' = chatLog
                   ELSE /\ chatLog' = [chatLog EXCEPT ![session[s]] = Append(@, now)]
                        /\ Len(emitted') = 1
                        /\ emitted'[1].ev = "chat" /\ emitted'[1].id = session[s]
                /\ \A other \in DOMAIN players \ {session[s]} :
                      players'[other] = players[other]]_vars

\* a message is dropped for a player for which three or more chat events were
\* broadcast, while another player has chat events too
C8_Witness ==
    /\ op[1] = "chat" /\ op[4] = "dropped"
    /\ \E id \in DOMAIN players :
          /\ Len(chatLog[id]) >= 3
          /\ \E other \in DOMAIN players \ {id} : Len(chatLog[other]) >= 1

\* the number of playerLeft events for id in evs
LeftEvents(evs, id) ==
    Cardinality({i \in 1..Len(evs) : evs[i].ev = "playerLeft" /\ evs[i].id = id})

\* C9: when a connection that joined closes, its player is removed, one
\* playerLeft event for the id is broadcast, and it is the only one ever; no
\* snapshot holds an id a playerLeft event was broadcast for; when a connection
\* that did not join closes, nothing is broadcast and no player is removed.
C9_CloseRemovesPlayer ==
    /\ [](\A id \in DOMAIN leftCount : leftCount[id] <= 1 /\ (leftCount[id] = 1 => id \notin DOMAIN players))
    /\ [][/\ \A s \in Sockets :
                wsClose(s)
                => IF session[s] # ""
                   THEN /\ session[s] \in DOMAIN players
                        /\ session[s] \notin DOMAIN players'
                        /\ DOMAIN players' = DOMAIN players \ {session[s]}
                        /\ LeftEvents(emitted', session[s]) = 1
                        /\ Len(emitted') = 1
                   ELSE emitted' = <<>> /\ players' = players
          /\ op'[1] = "tick"
             => \A i \in 1..Len(emitted') :
                   emitted'[i].ev = "snapshot"
                   => \A id \in DOMAIN emitted'[i].players : leftCount'[id] = 0]_vars

\* a snapshot with a player in it is broadcast after another player has left
C9_Witness ==
    /\ op[1] = "tick"
    /\ \E id \in DOMAIN leftCount : leftCount[id] = 1
    /\ \E i \in 1..Len(emitted) : emitted[i].ev = "snapshot" /\ DOMAIN emitted[i].players # {}

\* C11: damageMob on a live mob with an amount of at least its hp, by a player P
\* that is the only contributor, marks the mob dead, adds the xp of the mob's
\* type to P's xp (a mob_died event names P the killer), and sets respawnAt to
\* the current time plus the respawn seconds of the mob's type.
C11_KillBySoleContributor ==
    [][\A k \in DOMAIN mobs, P \in DOMAIN players :
          (/\ op'[1] = "damageMob" /\ op'[2] = P
           /\ ~mobs[k].dead /\ mobs[k].hp > 0 /\ op'[3] >= mobs[k].hp
           /\ DOMAIN mobs[k].damageContrib \subseteq {P}
           /\ players[P].xp + mobDefs[mobs[k].type].xp < players[P].nextLevelXp)
          => /\ mobs'[k].dead
             /\ players'[P].xp = players[P].xp + mobDefs[mobs[k].type].xp
             /\ \E i \in 1..Len(emitted') :
                   /\ emitted'[i].ev = "mob_died"
                   /\ emitted'[i].killerId = P
                   /\ emitted'[i].xp = mobDefs[mobs[k].type].xp
             /\ mobs'[k].respawnAt = now + mobDefs[mobs[k].type].respawn * 1000]_vars

\* the mob has just died of a hit of its only contributor, after the clock moved
C11_Witness ==
    /\ op[1] = "damageMob" /\ op[4] = "died"
    /\ now > 0
    /\ \E k \in DOMAIN mobs :
          /\ mobs[k].dead
          /\ DOMAIN mobs[k].damageContrib = {op[2]}
          /\ mobs[k].respawnAt = now + 12000
    /\ op[2] \in DOMAIN players /\ players[op[2]].xp >= 12

\* the greatest amount in a contribution table
MaxContrib(contrib) == CHOOSE m \in {contrib[q] : q \in DOMAIN contrib} :
                          \A q \in DOMAIN contrib : contrib[q] <= m

\* C12: when a mob dies, the player whose cumulative contribution since the
\* mob's last respawn is greater than every other one gets the xp of the mob's
\* type, and no player with a smaller contribution, or with none, gets
\* anything, whoever dealt the final hit.
C12_XpToTopContributor ==
    [][\A k \in DOMAIN mobs :
          (op'[1] = "damageMob" /\ ~mobs[k].dead /\ mobs'[k].dead)
          => LET contrib == mobs'[k].damageContrib
                 reward == mobDefs[mobs[k].type].xp
             IN  \A P \in DOMAIN players :
                    /\ (/\ P \in DOMAIN contrib
                        /\ \A q \in DOMAIN contrib \ {P} : contrib[q] < contrib[P]
                        /\ players[P].xp + reward < players[P].nextLevelXp)
                       => players'[P].xp = players[P].xp + reward
                    /\ (P \notin DOMAIN contrib \/ contrib[P] < MaxContrib(contrib))
                       => players'[P] = players[P]]_vars

\* the mob has died of a hit of a player that is not its top contributor, and
\* the top contributor has the xp
C12_Witness ==
    /\ op[1] = "damageMob" /\ op[4] = "died"
    /\ \E k \in DOMAIN mobs, P \in DOMAIN players :
          /\ mobs[k].dead
          /\ P # op[2]
          /\ {P, op[2]} \subseteq DOMAIN mobs[k].damageContrib
          /\ mobs[k].damageContrib[P] > mobs[k].damageContrib[op[2]]
          /\ players[P].xp >= 12
          /\ op[2] \in DOMAIN players /\ players[op[2]].xp = 0

\* C13: a tick that leaves a mob dead changes neither its position nor its
\* velocity and hurts no player; damageMob on a dead mob changes neither the
\* mob (its hp and its contributions) nor any player and broadcasts nothing.
C13_DeadMobIsInert ==
    [][\A k \in DOMAIN mobs :
          /\ (op'[1] = "tick" /\ mobs[k].dead /\ mobs'[k].dead)
             => /\ Motion(mobs'[k]) = Motion(mobs[k])
                /\ \A i \in 1..Len(emitted') : emitted'[i].ev # "player_hurt"
                /\ \A id \in DOMAIN players : players'[id].hp = players[id].hp
          /\ (op'[1] = "damageMob" /\ mobs[k].dead)
             => /\ mobs'[k] = mobs[k]
                /\ players' = players
                /\ emitted' = <<>>]_vars

\* damageMob was called on a dead mob that has a living player inside its aggro
\* radius, after a tick
C13_Witness ==
    /\ op[1] = "damageMob" /\ op[4] = "return"
    /\ ticks >= 1
    /\ \E k \in DOMAIN mobs, id \in DOMAIN players :
          /\ mobs[k].dead
          /\ players[id].hp > 0
          /\ DistSq(players[id].x - mobs[k].x, players[id].y - mobs[k].y, mobs[k].aggroRadius * POS)
             < (mobs[k].aggroRadius * POS) * (mobs[k].aggroRadius * POS)

\* C14: a dead mob becomes live in a tick only, at a time that is at least its
\* respawnAt, and it is then at maxHp with an empty contribution table and
\* with respawnAt cleared.
C14_RespawnWhenDue ==
    [][\A k \in DOMAIN mobs :
          (mobs[k].dead /\ ~mobs'[k].dead)
          => /\ op'[1] = "tick"
             /\ mobs[k].respawnAt # 0
             /\ now >= mobs[k].respawnAt
             /\ mobs'[k].hp = mobs'[k].maxHp
             /\ mobs'[k].damageContrib = <<>>
             /\ mobs'[k].respawnAt = 0]_vars

\* a mob that was killed is live again after a tick
C14_Witness ==
    /\ op[1] = "tick"
    /\ now >= 12000
    /\ \E k \in DOMAIN mobs : ~mobs[k].dead /\ mobs[k].hp = mobs[k].maxHp /\ mobs[k].damageContrib = <<>>
    /\ \E id \in DOMAIN players : players[id].xp >= 12

\* C16: the hp of a mob is at least 0 in every state and in every snapshot.
C16_MobHpNotNegative ==
    /\ \A k \in DOMAIN mobs : mobs[k].hp >= 0
    /\ \A i \in 1..Len(emitted) :
          emitted[i].ev = "snapshot" => \A k \in DOMAIN emitted[i].mobs : emitted[i].mobs[k].hp >= 0

\* C15: for every player 0 <= hp <= maxHp, after any sequence of damagePlayer,
\* awardXpToPlayer and applyEquipmentBonusesForPlayer calls.
C15_HpWithinBounds ==
    \A id \in DOMAIN players : 0 <= players[id].hp /\ players[id].hp <= players[id].maxHp

\* a player that levelled up and then put on an item was hurt to death
C15_Witness ==
    /\ op[1] = "damagePlayer"
    /\ \E id \in DOMAIN players :
          /\ players[id].hp = 0
          /\ players[id].level >= 2
          /\ bonusFrom(players[id].equipment, 1, "maxHp") > 0
          /\ players[id].maxHp = 200 + bonusFrom(players[id].equipment, 1, "maxHp")

\* C17: for every player, after any sequence of level-ups and equipment
\* changes, maxHp is the base max hp (200 and the 50 of each level gained)
\* plus the sum of the maxHp bonuses of the items in its equipment slots.
C17_MaxHpIsBasePlusBonuses ==
    \A id \in DOMAIN players :
       players[id].maxHp = NumberOr(players[id]._baseMaxHp, 200) + 50 * (players[id].level - 1)
                           + bonusFrom(players[id].equipment, 1, "maxHp")

\* the xp amounts of the two calls that C18 compares with one call
XpParts == XpAmounts

\* the level, xp, nextLevelXp and maxHp of a player
Progress(p) == <<p.level, p.xp, p.nextLevelXp, p.maxHp>>

\* C18: for every player state and every pair of non-negative integer amounts a
\* and b, awardXpToPlayer(a + b) leaves the same level, xp, nextLevelXp and
\* maxHp as awardXpToPlayer(a) followed by awardXpToPlayer(b).
C18_BatchedEqualsIncremental ==
    \A id \in DOMAIN players : \A a \in XpParts, b \in XpParts :
       LET to == openPlayers(players, session, conn)
           batched == awardXpToPlayer(players, id, a + b, to).players
           first == awardXpToPlayer(players, id, a, to).players
           second == awardXpToPlayer(first, id, b, to).players
       IN  Progress(batched[id]) = Progress(second[id])

\* awardXpToPlayer has run on a player that is below a threshold, and there are
\* amounts a and b that cross one threshold each and two together
C18_Witness ==
    /\ op[1] = "awardXp"
    /\ \E id \in DOMAIN players : \E a \in XpParts, b \in XpParts :
          LET to == openPlayers(players, session, conn)
              first == awardXpToPlayer(players, id, a, to).players
              second == awardXpToPlayer(first, id, b, to).players
          IN  /\ players[id].xp > 0
              /\ first[id].level > players[id].level
              /\ second[id].level > first[id].level
              /\ awardXpToPlayer(players, id, a + b, to).players[id].level >= players[id].level + 2

\* C19: the factors 1.3 and 1.1 that level 5 gives to damageMul and to
\* buffDurationMul stay in them: a player of level 5 or more, whose items have
\* no negative bonus, has a damageMul of at least 1.3 and a buffDurationMul of
\* at least 1.1.
C19_LevelMultipliersKept ==
    \A id \in DOMAIN players :
       players[id].level >= 5
       => /\ players[id].damageMul * 10 >= 13 * MUL
          /\ players[id].buffDurationMul * 10 >= 11 * MUL

\* the slots where two equipment arrays differ
ChangedSlots(e1, e2) == {i \in 1..EQUIP_SLOTS : e1[i] # e2[i]}

\* C20: applyEquipmentBonusesForPlayer after one item with a maxHp bonus b > 0
\* was put in an empty slot of a player whose hp is its maxHp raises hp and
\* maxHp by b.
C20_EquipKeepsFullHealth ==
    [][\A id \in DOMAIN players :
          (/\ op'[1] = "applyEquipment" /\ op'[2] = id
           /\ players[id].hp = players[id].maxHp
           /\ \E i \in 1..EQUIP_SLOTS :
                 /\ ChangedSlots(players[id].equipment, players'[id].equipment) = {i}
                 /\ ~players[id].equipment[i].has
                 /\ players'[id].equipment[i].has
                 /\ players'[id].equipment[i].maxHp > 0)
          => LET b == bonusFrom(players'[id].equipment, 1, "maxHp")
                      - bonusFrom(players[id].equipment, 1, "maxHp")
             IN  /\ players'[id].maxHp = players[id].maxHp + b
                 /\ players'[id].hp = players[id].hp + b]_vars

\* the walls of the grid that the circle of a query collides with, by brute force
Colliding(sp, q) == {i \in DOMAIN sp.walls : CircleHitsWall(sp.walls[i], q.x, q.y, q.radius)}

\* C21: for every wall set given to build and every query point and radius,
\* getNearbyWalls returns every wall whose rectangle is closer to the point
\* than the radius.
C21_NearbyWallsSuperset ==
    [][op'[1] = "getNearbyWalls" => Colliding(spatial, nearby') \subseteq nearby'.walls]_vars

\* a query at a negative x has returned the walls it collides with and not every wall
C21_Witness ==
    /\ op[1] = "getNearbyWalls"
    /\ nearby.x < 0
    /\ Colliding(spatial, nearby) # {}
    /\ Colliding(spatial, nearby) \subseteq nearby.walls
    /\ nearby.walls # DOMAIN spatial.walls

\* the square of the distance from the center of e to the rectangle r, where
\* the distance is below `reach` on both axes, else `reach` squared
RectDistSq(e, r, reach) ==
    LET c == closestPoint(e, r)
    IN  IF jsAbs(e.x - c.x) >= reach \/ jsAbs(e.y - c.y) >= reach THEN reach * reach
        ELSE jsMin(reach * reach, (e.x - c.x) * (e.x - c.x) + (e.y - c.y) * (e.y - c.y))

\* the circle of e overlaps the rectangle r
Overlaps(e, r) ==
    LET radius == NumberOr(e.radius, 15 * GU) IN RectDistSq(e, r, radius) < radius * radius

\* C22: after resolveCircleRect on a circle that overlaps the rectangle, its
\* center inside the rectangle or not, the distance from the center to the
\* rectangle is at least the radius minus 0.1 px.
C22_NoPenetrationLeft ==
    [][(op'[1] = "resolveCircleRect" /\ Overlaps(entity, rect))
       => RectDistSq(entity', rect, NumberOr(entity.radius, 15 * GU))
             >= (NumberOr(entity.radius, 15 * GU) - 1) * (NumberOr(entity.radius, 15 * GU) - 1)]_vars

\* C23: resolveCircleRect leaves an entity that does not overlap the rectangle
\* as it is, and a second call with the same rectangle changes nothing.
C23_ResolveIdempotent ==
    [][op'[1] = "resolveCircleRect"
       => /\ ~Overlaps(entity, rect) => entity' = entity
          /\ resolveCircleRect(entity', rect) = entity']_vars

\* the entity is within the outer bounds of the map
InBounds(e) ==
    LET radius == NumberOr(e.radius, 15 * GU)
    IN  /\ MAP_PADDING * GU + radius <= e.x /\ e.x <= (MAP_W - MAP_PADDING) * GU - radius
        /\ MAP_PADDING * GU + radius <= e.y /\ e.y <= (MAP_H - MAP_PADDING) * GU - radius

\* C24: after constrainEntity the entity is within the outer bounds of the map.
C24_ConstrainedInsideBounds ==
    [][op'[1] = "constrainEntity" => InBounds(entity')]_vars

\* a wall is a rectangle with a positive width and height or a polygon of 3 points or more
ValidWall(w) ==
    IF "points" \in DOMAIN w THEN Len(w.points) >= 3 ELSE w.w > 0 /\ w.h > 0

\* C25: the wall set built at startup is not empty, each of its walls is a
\* rectangle with a positive width and height or a polygon of at least 3
\* points, and it is the rectangular fallback layout exactly when
\* polylineToThickPolygon returns fewer than 3 points.
C25_StartupWallsValid ==
    op[1] = "startup"
    => /\ startup.walls # <<>>
       /\ \A i \in 1..Len(startup.walls) : ValidWall(startup.walls[i])
       /\ (startup.walls = fallbackWalls)
          <=> (Len(polylineToThickPolygon(startup.centerline, WALL_THICKNESS_WORLD)) < 3)

\* the startup has built the fallback layout from a centerline of one point
C25_Witness ==
    /\ op[1] = "startup"
    /\ Len(startup.centerline) = 1
    /\ Len(startup.walls) = 36
    /\ \A i \in 1..Len(startup.walls) : "points" \notin DOMAIN startup.walls[i]

\* C26: a message that is not JSON or has no t changes no player, no mob and
\* nothing else of the world and broadcasts nothing; the connection stays open
\* and its handler keeps its player, so that the messages that follow on the
\* connection are handled as before.
C26_BadMessageDropped ==
    [][op'[1] = "message"
       => /\ players' = players /\ mobs' = mobs /\ nextPlayerId' = nextPlayerId
          /\ chatLog' = chatLog /\ leftCount' = leftCount
          /\ emitted' = <<>>
          /\ conn' = conn /\ conn'[op'[2]] = "open"
          /\ session' = session]_vars

\* a bad message was dropped on the connection of a player that has an input
\* staged, with a second player in the world
C26_Witness ==
    /\ op[1] = "message" /\ op[4] = "dropped"
    /\ session[op[2]] # ""
    /\ players[session[op[2]]].lastProcessedInput = 2
    /\ Cardinality(DOMAIN players) = 2
    /\ conn[op[2]] = "open"

\* the instanceIds in the inventory of a player
InventoryIds(p) == {p.inventory[i].instanceId : i \in 1..Len(p.inventory)}

\* C27: an equipPetal request of a joined player whose hotbarSlot is not one of
\* the integers 0 to 7, or whose petalInstanceId is not in the inventory,
\* leaves the hotbar and the inventory as they were and sends no
\* playerInventory.
C27_BadEquipIsNoOp ==
    [][\A s \in Sockets :
          (/\ op'[1] = "equipPetal" /\ op'[2] = s
           /\ s \in DOMAIN players
           /\ \/ op'[3] \notin {0, 10, 20, 30, 40, 50, 60, 70}
              \/ op'[5] \notin InventoryIds(players[s]))
          => /\ players'[s].hotbar = players[s].hotbar
             /\ players'[s].inventory = players[s].inventory
             /\ \A i \in 1..Len(emitted') : emitted'[i].ev # "playerInventory"]_vars

\* C28: a cast message of a living joined player takes effect: it starts a
\* cooldown of the player, damages a target or sends something to the clients.
C28_CastTakesEffect ==
    [][(op'[1] = "cast" /\ op'[4] = "")
          => \/ \E id \in DOMAIN players \cap DOMAIN players' :
                   players'[id].cooldowns # players[id].cooldowns
             \/ players' # players
             \/ mobs' # mobs
             \/ emitted' # <<>>]_vars

\* the square of the distance from the mob m to the player p, in position units
MobDistSq(m, p) == (p.x - m.x) * (p.x - m.x) + (p.y - m.y) * (p.y - m.y)

\* the living players closer to the mob m than its aggro radius
InAggro(m, ps) ==
    {id \in DOMAIN ps : ps[id].hp > 0
                        /\ MobDistSq(m, ps[id]) < (m.aggroRadius * POS) * (m.aggroRadius * POS)}

\* the end of mobAI: x or y brought back inside the limit of the mob m
ClampedIn(m, v) == jsMax(0 - (MAP_HALF - m.radius - 8) * POS, jsMin((MAP_HALF - m.radius - 8) * POS, v))

\* the mob m2 is m after a tick of going for the player p: its velocity is not
\* zero and points to p on both axes, and it has moved by that velocity
Pursues(m, m2, p) ==
    MobDistSq(m, p) > 0 =>
        /\ <<m2.vx, m2.vy>> # <<0, 0>>
        /\ jsSign(m2.vx) \in {0, jsSign(p.x - m.x)}
        /\ jsSign(m2.vy) \in {0, jsSign(p.y - m.y)}
        /\ m2.x = ClampedIn(m, m.x + TickStep(m2.vx))
        /\ m2.y = ClampedIn(m, m.y + TickStep(m2.vy))

\* what a tick does with the live mob k; with no living player in its aggro
\* radius the mob stops, and is where it was (inPlace) or where the clamp of
\* mobAI puts it
MobTickOk(k, inPlace) ==
    LET m == mobs[k]
        near == InAggro(m, players)
        hurtIds == {emitted'[i].id : i \in {j \in 1..Len(emitted') : emitted'[j].ev = "player_hurt"}}
    IN  /\ near = {} =>
              /\ mobs'[k].vx = 0 /\ mobs'[k].vy = 0
              /\ IF inPlace THEN mobs'[k].x = m.x /\ mobs'[k].y = m.y
                            ELSE mobs'[k].x = ClampedIn(m, m.x) /\ mobs'[k].y = ClampedIn(m, m.y)
              /\ hurtIds = {}
        /\ near # {} =>
              \E id \in near :
                 /\ \A o \in near : MobDistSq(m, players[o]) >= MobDistSq(m, players[id])
                 /\ Pursues(m, mobs'[k], players[id])
                 /\ hurtIds \subseteq {id}
        /\ \A id \in DOMAIN players :
              players[id].hp <= 0 => players'[id].hp = players[id].hp /\ id \notin hurtIds

\* C29 as stated: in a tick a live mob goes for a living player inside its
\* aggro radius that no other living player is closer than; only that player
\* can be damaged, a player with hp <= 0 never is; with no living player in the
\* aggro radius the mob stops and its position does not change.
C29_MobStaysWithoutTarget ==
    [][op'[1] = "tick" =>
          \A k \in DOMAIN mobs :
             (~mobs[k].dead /\ ~(mobs[k].stunnedUntil > now)) => MobTickOk(k, TRUE)]_vars

\* C29 amended: the same, but with no living player in the aggro radius the
\* position changes by nothing but the clamp to the map limit at the end of mobAI.
C29_MobPursuesNearestLiving ==
    [][op'[1] = "tick" =>
          \A k \in DOMAIN mobs :
             (~mobs[k].dead /\ ~(mobs[k].stunnedUntil > now)) => MobTickOk(k, FALSE)]_vars

\* a tick in which the mob went for a living player while a player with no hp
\* left stood closer to it
C29_Witness ==
    /\ op[1] = "tick"
    /\ \E k \in DOMAIN mobs, id \in DOMAIN players, o \in DOMAIN players :
          /\ <<mobs[k].vx, mobs[k].vy>> # <<0, 0>>
          /\ players[id].hp = 0 /\ players[o].hp > 0
          /\ MobDistSq(mobs[k], players[id]) < MobDistSq(mobs[k], players[o])

\* C30: from one stateSnapshot to the next the position of a player changes by
\* at most SPEED * MAX_INPUT_DT on each axis, however many inputs came in
\* between them, each of which moved it by no more than that.
C30_MoveBetweenSnapshotsBounded ==
    [][op'[1] = "tick" =>
          \A s \in DOMAIN snapshotPos \cap DOMAIN players :
             snapshotPos[s].bounded
             => /\ jsAbs(players[s].x - snapshotPos[s].x) <= MaxStep
                /\ jsAbs(players[s].y - snapshotPos[s].y) <= MaxStep]_vars

\* the last time the clock of the model reaches
LastClock == (MaxMobTime \div RespawnStep) * RespawnStep

\* C31: when the interval callback runs again and again and the time goes on,
\* every dead mob whose respawn time the clock reaches is live again later.
C31_DeadMobComesBack ==
    ([]<>(op[1] = "tick"))
       => \A k \in {mobId(n) : n \in ModelledMobs} :
             (mobs[k].dead /\ mobs[k].respawnAt <= LastClock) ~> ~mobs[k].dead

\* a mob that was killed twice is live once more
C31_Witness ==
    /\ op[1] = "tick"
    /\ \E k \in DOMAIN mobs : ~mobs[k].dead /\ mobs[k].hp = mobs[k].maxHp
    /\ \E id \in DOMAIN players : players[id].xp >= 24
\* C32: for every player state and every non-negative XP award, the level-up
\* loop of awardXpToPlayer ends, after no more passes than the xp holds
\* thresholds, and on return 0 <= xp < nextLevelXp; level and nextLevelXp never
\* decrease.
C32_LevelLoopEnds ==
    [][op'[1] = "awardXp" =>
         LET p == players[op'[2]]
             q == players'[op'[2]]
         IN  /\ 0 <= q.xp
             /\ q.xp < q.nextLevelXp
             /\ q.level >= p.level
             /\ q.nextLevelXp >= p.nextLevelXp
             /\ q.level - p.level <= (p.xp + op'[3]) \div p.nextLevelXp]_vars

\* an award has run the loop more than once and left xp below the threshold
C32_Witness ==
    /\ op[1] = "awardXp"
    /\ op[3] = 700
    /\ players[op[2]].level >= 5
    /\ players[op[2]].xp > 0

\* C33: once a player's hp has reached 0, one player_died event is broadcast
\* for that death and the hp stays 0 through any later damage, XP award or
\* equipment change: a step that kills a player broadcasts player_died once,
\* and no step on a dead player changes its hp or broadcasts player_died again.
C33_DeadStaysDead ==
    [][\A id \in DOMAIN players \cap DOMAIN players' :
          LET died == SelectSeq(emitted', LAMBDA e : e.ev = "player_died" /\ e.id = id)
          IN  /\ (players[id].hp > 0 /\ players'[id].hp = 0) => Len(died) = 1
              /\ players[id].hp = 0 => (players'[id].hp = 0 /\ died = <<>>)]_vars

\* C34: for every living player and every item, putting the item into a free
\* slot and taking it out again, with applyEquipmentBonusesForPlayer after each
\* change, leaves hp and maxHp as they were before the item was put in.
C34_EquipUnequipRestores ==
    \A id \in DOMAIN players : \A item \in {ring, charm} : \A slot \in 1..EQUIP_SLOTS :
       LET p == players[id]
           worn == applyEquipmentBonusesForPlayer([p EXCEPT !.equipment[slot] = item])
           bare == applyEquipmentBonusesForPlayer([worn EXCEPT !.equipment = p.equipment])
       IN  (p.hp > 0 /\ ~p.equipment[slot].has) => (bare.hp = p.hp /\ bare.maxHp = p.maxHp)

\* C35: in the server with wall collision no joined player's circle of radius
\* PLAYER_RADIUS overlaps a wall, neither at the position findTopLeftSpawn
\* chose at join nor after any applied input.
C35_NoPlayerInsideWall ==
    \A id \in DOMAIN players : \A i \in DOMAIN WALLS :
       ~CircleHitsWall(WALLS[i], players[id].x, players[id].y, PLAYER_RADIUS * PX)

\* the position lies within [padding, size - padding] on both axes
InsideMaze(p) ==
    /\ jsGe(p.x, MAZE_PADDING * PX) /\ jsLe(p.x, (MAP_SIZE - MAZE_PADDING) * PX)
    /\ jsGe(p.y, MAZE_PADDING * PX) /\ jsLe(p.y, (MAP_SIZE - MAZE_PADDING) * PX)

\* C36: in the polygon-maze server every joined player's position lies within
\* [padding, size - padding] on both axes from the join on, and an applied
\* input with a zero input vector leaves the position where it was.
C36_InsideFromJoinOn ==
    [][/\ \A id \in DOMAIN players' : InsideMaze(players'[id])
       /\ (op'[1] = "input" /\ op'[4] = "applied" /\ op'[5] = <<0, 0>>)
             => (players'[op'[2]].x = players[op'[2]].x /\ players'[op'[2]].y = players[op'[2]].y)]_vars

\* the cells <<col, row>> of the 12 x 12 grid that have no square among the rects
FreeCells(rects) ==
    {c \in (0..11) \X (0..11) :
        \A i \in DOMAIN rects :
           ~(/\ rects[i].x = (c[1] * CELL_SIZE - MAP_W \div 2) * GU
             /\ rects[i].y = (c[2] * CELL_SIZE - MAP_H \div 2) * GU)}

\* two cells share an edge
EdgeAdjacent(a, b) ==
    \/ a[1] = b[1] /\ jsAbs(a[2] - b[2]) = 1
    \/ a[2] = b[2] /\ jsAbs(a[1] - b[1]) = 1

\* the cells of `free` a sequence of edge-adjacent cells of `free` leads to from S
RECURSIVE FreeReach(_, _)
FreeReach(free, S) ==
    LET more == S \cup {c \in free : \E d \in S : EdgeAdjacent(c, d)}
    IN  IF more = S THEN S ELSE FreeReach(free, more)

\* C37: the wall-free cells of generateWalls form a traversable path: every two
\* consecutive centerline waypoints are joined by a sequence of edge-adjacent
\* wall-free cells of the 12 x 12 grid.
C37_WaypointsConnected ==
    \A i \in 1..(Len(centerlineGrid) - 1) :
       /\ centerlineGrid[i] \in FreeCells(spatial.walls)
       /\ centerlineGrid[i + 1] \in FreeReach(FreeCells(spatial.walls), {centerlineGrid[i]})

\* the newPlayer and playerLeft events among evs that are about socket s, in order
AnnouncedFor(evs, s) ==
    SelectSeq(evs, LAMBDA e : e.ev \in {"newPlayer", "playerLeft"} /\ e.id = s)

\* C38: in the server with walls the newPlayer and playerLeft events emitted for
\* one socket id alternate, starting with newPlayer: each such event of a step
\* differs from the one emitted before it for that socket, and the first of
\* all is a newPlayer.
C38_JoinLeaveAlternate ==
    [][now' = now =>        \* a handler or the interval has run, not the clock
         \A s \in Sockets :
            LET evs == AnnouncedFor(emitted', s)
            IN  \A i \in 1..Len(evs) :
                   evs[i].ev # (IF i > 1 THEN evs[i - 1].ev
                               ELSE IF announced[s] = "" THEN "playerLeft" ELSE announced[s])]_vars

\* C39: for every mob in every reachable state, dead = true, respawnAt set and
\* hp <= 0 hold together or not at all.
C39_DeadRespawnAtHpAgree ==
    \A k \in DOMAIN mobs :
       /\ mobs[k].dead <=> mobs[k].respawnAt # 0
       /\ mobs[k].dead <=> mobs[k].hp <= 0

\* damageMob has taken a mob below 0 hp, and it is dead with a respawn time
C39_Witness ==
    /\ op[1] = "damageMob"
    /\ \E k \in DOMAIN mobs : mobs[k].dead /\ mobs[k].respawnAt > now /\ mobs[k].hp < 0

====
